---- MODULE Spec2Model ----
(***************************************************************************)
(* A model of the pixel-array engine of pixel-reader: the LSB              *)
(* steganography codec (SteganographyAnalyzer), the convolution edge       *)
(* detector (EdgeDetectionAnalyzer) and the two-image operations of        *)
(* ImageProcessor.                                                         *)
(*                                                                         *)
(* An image is a record [width, height, data]; data is the interleaved     *)
(* RGBA byte sequence.  JavaScript index i is index i+1 here.  A string    *)
(* is the sequence of its character codes; a binary string is a sequence   *)
(* of the digits 0 and 1.                                                  *)
(***************************************************************************)
EXTENDS Integers, Sequences, FiniteSets

VARIABLES
  imageData,       \* the source image (what ImageProcessor.getImageData returns)
  otherImageData,  \* the second image of a two-image operation
  op,              \* the last operation called, with its arguments
  result           \* the value that call returned

vars == <<imageData, otherImageData, op, result>>

(***************************************************************************)
(* Bounds of the model                                                     *)
(***************************************************************************)
MaxWidth == 7
MaxHeight == 7
MaxTextLen == 2
MaxAffix == 1
MaxEdgeDim == 4
MaxProcDim == 2
MaxPointDim == 2
MaxHsvDim == 2
MaxStatDim == 2
MaxArrayLen == 4
MaxGeomDim == 3
MaxSteps == 4

(***************************************************************************)
(* Bytes and bits                                                          *)
(***************************************************************************)
Byte == 0..255

Pow2(k) == IF k = 0 THEN 1 ELSE IF k = 1 THEN 2 ELSE IF k = 2 THEN 4
           ELSE IF k = 3 THEN 8 ELSE IF k = 4 THEN 16 ELSE IF k = 5 THEN 32
           ELSE IF k = 6 THEN 64 ELSE 128

\* bit k (0 = least significant) of a non-negative integer below 256
BitOf(n, k) == (n \div Pow2(k)) % 2

\* JavaScript a & b, a | b, a ^ b on non-negative integers
RECURSIVE BitAnd(_, _)
BitAnd(a, b) ==
  IF a = 0 \/ b = 0 THEN 0
  ELSE (a % 2) * (b % 2) + 2 * BitAnd(a \div 2, b \div 2)

RECURSIVE BitOr(_, _)
BitOr(a, b) ==
  IF a = 0 THEN b
  ELSE IF b = 0 THEN a
  ELSE (IF a % 2 = 1 \/ b % 2 = 1 THEN 1 ELSE 0) + 2 * BitOr(a \div 2, b \div 2)

RECURSIVE BitXor(_, _)
BitXor(a, b) ==
  IF a = 0 THEN b
  ELSE IF b = 0 THEN a
  ELSE (IF a % 2 = b % 2 THEN 0 ELSE 1) + 2 * BitXor(a \div 2, b \div 2)

\* Number.prototype.toString(2): the binary digits, most significant first
RECURSIVE toString2(_)
toString2(n) == IF n < 2 THEN <<n>> ELSE Append(toString2(n \div 2), n % 2)

\* String.prototype.padStart(len, "0")
RECURSIVE padStart(_, _)
padStart(s, len) == IF Len(s) >= len THEN s ELSE padStart(<<0>> \o s, len)

\* parseInt(s, 2) of a digit string
RECURSIVE parseInt2(_)
parseInt2(s) ==
  IF Len(s) = 0 THEN 0
  ELSE 2 * parseInt2(SubSeq(s, 1, Len(s) - 1)) + s[Len(s)]

\* String.prototype.slice(-n)
sliceLast(s, n) == IF Len(s) <= n THEN s ELSE SubSeq(s, Len(s) - n + 1, Len(s))

\* String.prototype.endsWith
endsWith(s, suffix) ==
  /\ Len(s) >= Len(suffix)
  /\ SubSeq(s, Len(s) - Len(suffix) + 1, Len(s)) = suffix

(***************************************************************************)
(* SteganographyAnalyzer                                                   *)
(***************************************************************************)
\* "<<END>>"
END_DELIMITER == <<60, 60, 69, 78, 68, 62, 62>>

\* safety limit of decode, in bits
SAFETY_LIMIT == 1000000

RECURSIVE textToBinary(_)
textToBinary(text) ==
  IF Len(text) = 0 THEN <<>>
  ELSE padStart(toString2(Head(text)), 8) \o textToBinary(Tail(text))

\* mutant: the alpha bytes counted as capacity
maxBitsWithAlpha(width, height) == width * height * 4

\* maxBits of encode: three usable bits per pixel
maxBitsOf(width, height) == width * height * 3

\* mutant: the delimiter not subtracted
calculateCapacityNoDelimiter(width, height) ==
  LET totalPixels == width * height
      totalBits == totalPixels * 3
  IN  totalBits \div 8

calculateCapacity(width, height) ==
  LET totalPixels == width * height
      totalBits == totalPixels * 3
  IN  (totalBits \div 8) - Len(END_DELIMITER)

\* (data[i] & 0xfe) | bit
setLsb(byte, bit) == BitOr(BitAnd(byte, 254), bit)

\* bitIndex when the embedding loop of encode reaches index i (0-based): the
\* number of colour bytes before i, every fourth byte being skipped
bitIndexAt(i) == i - (i \div 4)

\* mutant: the least significant bit of every colour byte after the message
\* is cleared
embedLoopClearRest(data, binaryMessage) ==
  [k \in 1..Len(data) |->
     LET i == k - 1
     IN  IF (i + 1) % 4 = 0 THEN data[k]
         ELSE IF bitIndexAt(i) < Len(binaryMessage)
              THEN setLsb(data[k], binaryMessage[bitIndexAt(i) + 1])
              ELSE setLsb(data[k], 0)]

\* the embedding loop of encode: the colour byte at index i takes message bit
\* bitIndexAt(i) while bits are left; alpha bytes and later bytes are kept
embedLoop(data, binaryMessage) ==
  [k \in 1..Len(data) |->
     LET i == k - 1
     IN  IF (i + 1) % 4 = 0 THEN data[k]
         ELSE IF bitIndexAt(i) < Len(binaryMessage)
              THEN setLsb(data[k], binaryMessage[bitIndexAt(i) + 1])
              ELSE data[k]]

encode(image, text) ==
  LET width == image.width
      height == image.height
      messageWithDelimiter == text \o END_DELIMITER
      binaryMessage == textToBinary(messageWithDelimiter)
      messageLength == Len(binaryMessage)
      maxBits == maxBitsOf(width, height)
  IN  IF messageLength > maxBits
      THEN [success |-> FALSE,
            maxCharacters |-> maxBits \div 8,
            messageLength |-> Len(text)]
      ELSE [success |-> TRUE,
            imageData |-> [width |-> width, height |-> height,
                           data |-> embedLoop(image.data, binaryMessage)],
            messageLength |-> Len(text),
            bitsUsed |-> messageLength,
            bitsAvailable |-> maxBits]

\* mutant: DEL (127) rejected
validAsciiBelow127(charCode) == charCode >= 0 /\ charCode < 127

\* mutant: NUL (0) rejected
validAsciiNonZero(charCode) == charCode > 0 /\ charCode <= 127

\* a character code decode accepts
validAscii(charCode) == charCode >= 0 /\ charCode <= 127

\* mutant: the accumulated text returned without the warning
decodeEndNoWarning(image, binaryMessage, extractedText) ==
  IF Len(extractedText) > 0
  THEN [success |-> TRUE,
        text |-> extractedText,
        messageLength |-> Len(extractedText),
        bitsRead |-> Len(binaryMessage),
        imageSize |-> <<image.width, image.height>>]
  ELSE [success |-> FALSE,
        error |-> "no hidden message",
        imageSize |-> <<image.width, image.height>>]

\* what decode returns once its loop has ended without a delimiter
decodeEnd(image, binaryMessage, extractedText) ==
  IF Len(extractedText) > 0
  THEN [success |-> TRUE,
        text |-> extractedText,
        messageLength |-> Len(extractedText),
        bitsRead |-> Len(binaryMessage),
        imageSize |-> <<image.width, image.height>>,
        warning |-> "no end delimiter"]
  ELSE [success |-> FALSE,
        error |-> "no hidden message",
        imageSize |-> <<image.width, image.height>>]

\* index (0-based) of the n-th colour byte (n from 0), alpha bytes skipped
colourIndex(n) == n + (n \div 3)

\* the bits the reading loop of decode appends to binaryMessage, in order: the
\* least significant bit of every colour byte; the loop stops once more than
\* SAFETY_LIMIT bits were read
lsbStream(data) ==
  LET colourBytes == (Len(data) \div 4) * 3 + (Len(data) % 4)
      bitsRead == IF colourBytes > SAFETY_LIMIT THEN SAFETY_LIMIT + 1 ELSE colourBytes
  IN  [n \in 1..bitsRead |-> data[colourIndex(n - 1) + 1] % 2]

\* the reading loop of decode, taken one 8-bit group at a time: n groups of
\* the stream were read and extractedText accumulated from them
RECURSIVE decodeLoop(_, _, _, _)
decodeLoop(image, stream, n, extractedText) ==
  IF 8 * (n + 1) > Len(stream) THEN decodeEnd(image, stream, extractedText)
  ELSE
    LET binaryMessage == SubSeq(stream, 1, 8 * (n + 1))
        charCode == parseInt2(sliceLast(binaryMessage, 8))
        et == IF validAscii(charCode)
              THEN Append(extractedText, charCode)
              ELSE extractedText
    IN  IF validAscii(charCode) /\ endsWith(et, END_DELIMITER)
        THEN LET stripped == SubSeq(et, 1, Len(et) - Len(END_DELIMITER))
             IN  [success |-> TRUE,
                  text |-> stripped,
                  messageLength |-> Len(stripped),
                  bitsRead |-> Len(binaryMessage),
                  imageSize |-> <<image.width, image.height>>]
        ELSE decodeLoop(image, stream, n + 1, et)

decode(image) == decodeLoop(image, lsbStream(image.data), 0, <<>>)

(***************************************************************************)
(* Luminance.  Math.round(0.299*r + 0.587*g + 0.114*b) in integers: the    *)
(* two agree for every r,g,b in 0..255 unless 299r+587g+114b is 500 modulo *)
(* 1000, where the sum of doubles may fall just below the half.  No colour *)
(* used below is such a tie.                                               *)
(***************************************************************************)
\* mutant: rounded up
luminanceCeil(r, g, b) == (299 * r + 587 * g + 114 * b + 999) \div 1000

luminance(r, g, b) == (299 * r + 587 * g + 114 * b + 500) \div 1000

(***************************************************************************)
(* EdgeDetectionAnalyzer                                                   *)
(***************************************************************************)
SOBEL_X == <<<<-1, 0, 1>>, <<-2, 0, 2>>, <<-1, 0, 1>>>>
SOBEL_Y == <<<<-1, -2, -1>>, <<0, 0, 0>>, <<1, 2, 1>>>>
PREWITT_X == <<<<-1, 0, 1>>, <<-1, 0, 1>>, <<-1, 0, 1>>>>
PREWITT_Y == <<<<-1, -1, -1>>, <<0, 0, 0>>, <<1, 1, 1>>>>
ROBERTS_X == <<<<1, 0>>, <<0, -1>>>>
ROBERTS_Y == <<<<0, 1>>, <<-1, 0>>>>

\* mutant: the sharpening kernel in place of the Laplacian
LAPLACIAN_Sharpen == <<<<0, -1, 0>>, <<-1, 5, -1>>, <<0, -1, 0>>>>

LAPLACIAN == <<<<0, -1, 0>>, <<-1, 4, -1>>, <<0, -1, 0>>>>

\* String.prototype.toLowerCase on the kernel names of the model
toLowerCase(name) ==
  IF name = "LAPLACIAN" THEN "laplacian"
  ELSE IF name = "Sobel" THEN "sobel"
  ELSE name

\* mutant: an unrecognised name falls back to the Roberts kernels
getKernelDefaultRoberts(kernelName) ==
  LET name == toLowerCase(kernelName)
  IN  IF name = "prewitt" THEN [kernelX |-> PREWITT_X, kernelY |-> PREWITT_Y]
      ELSE IF name = "sobel" THEN [kernelX |-> SOBEL_X, kernelY |-> SOBEL_Y]
      ELSE IF name = "laplacian" THEN [kernelX |-> LAPLACIAN, kernelY |-> <<>>]
      ELSE [kernelX |-> ROBERTS_X, kernelY |-> ROBERTS_Y]

\* kernelY is null for the Laplacian: the empty sequence here
getKernel(kernelName) ==
  LET name == toLowerCase(kernelName)
  IN  IF name = "prewitt" THEN [kernelX |-> PREWITT_X, kernelY |-> PREWITT_Y]
      ELSE IF name = "roberts" THEN [kernelX |-> ROBERTS_X, kernelY |-> ROBERTS_Y]
      ELSE IF name = "laplacian" THEN [kernelX |-> LAPLACIAN, kernelY |-> <<>>]
      ELSE [kernelX |-> SOBEL_X, kernelY |-> SOBEL_Y]

\* Math.max(0, Math.min(255, sum))
clampSum(sum) == IF sum < 0 THEN 0 ELSE IF sum > 255 THEN 255 ELSE sum

\* grayData[p] of applyConvolution, p the 0-based pixel index
grayData(data, p) == luminance(data[4 * p + 1], data[4 * p + 2], data[4 * p + 3])

\* the two kernel loops of applyConvolution at pixel (x, y), from cell c on;
\* cell c is ky = c \div kernelSize, kx = c % kernelSize
RECURSIVE convolutionSum(_, _, _, _, _, _)
convolutionSum(data, width, kernel, x, y, c) ==
  LET kernelSize == Len(kernel)
      offset == kernelSize \div 2
      ky == c \div kernelSize
      kx == c % kernelSize
      px == x + kx - offset
      py == y + ky - offset
      value == grayData(data, py * width + px)
  IN  IF c >= kernelSize * kernelSize THEN 0
      ELSE value * kernel[ky + 1][kx + 1]
             + convolutionSum(data, width, kernel, x, y, c + 1)

\* the positions (px, py) whose gray value the loops of applyConvolution read
convolutionReads(width, height, kernel) ==
  LET kernelSize == Len(kernel)
      offset == kernelSize \div 2
  IN  {<<xy[1] + k[1] - offset, xy[2] + k[2] - offset>> :
         xy \in (offset..(width - offset - 1)) \X (offset..(height - offset - 1)),
         k \in (0..(kernelSize - 1)) \X (0..(kernelSize - 1))}

\* mutant: alpha 255 on every pixel
applyConvolutionOpaque(data, width, height, kernel) ==
  LET kernelSize == Len(kernel)
      offset == kernelSize \div 2
  IN  [data |->
        [k \in 1..Len(data) |->
           LET i == k - 1
               x == (i \div 4) % width
               y == (i \div 4) \div width
           IN  IF i % 4 = 3 THEN 255
               ELSE IF /\ y >= offset /\ y < height - offset
                       /\ x >= offset /\ x < width - offset
                    THEN clampSum(convolutionSum(data, width, kernel, x, y, 0))
                    ELSE 0]]

\* the data of the result of applyConvolution; bytes the loops never write
\* keep the 0 of the new Uint8ClampedArray
applyConvolution(data, width, height, kernel) ==
  LET kernelSize == Len(kernel)
      offset == kernelSize \div 2
  IN  [data |->
        [k \in 1..Len(data) |->
           LET i == k - 1
               x == (i \div 4) % width
               y == (i \div 4) \div width
           IN  IF /\ y >= offset /\ y < height - offset
                  /\ x >= offset /\ x < width - offset
               THEN IF i % 4 = 3 THEN 255
                    ELSE clampSum(convolutionSum(data, width, kernel, x, y, 0))
               ELSE 0]]

Abs(v) == IF v < 0 THEN 0 - v ELSE v

\* Math.abs(tempData[i]) > threshold ? 255 : 0
laplacianBinary(value, threshold) == IF Abs(value) > threshold THEN 255 ELSE 0

\* mutant: an edge at magnitude >= threshold
gradientBinaryAtLeast(gx, gy, threshold) ==
  IF threshold < 0 \/ gx * gx + gy * gy >= threshold * threshold THEN 255 ELSE 0

\* mutant: the comparison turned round
gradientBinaryBelow(gx, gy, threshold) ==
  IF threshold >= 0 /\ gx * gx + gy * gy < threshold * threshold THEN 255 ELSE 0

\* Math.sqrt(gx*gx + gy*gy) > threshold ? 255 : 0, gx and gy integers: the
\* root exceeds a non-negative integer exactly when the sum exceeds its square
gradientBinary(gx, gy, threshold) ==
  IF threshold < 0 \/ gx * gx + gy * gy > threshold * threshold THEN 255 ELSE 0

detectEdges(image, kernelName, threshold) ==
  LET width == image.width
      height == image.height
      data == image.data
      kernels == getKernel(kernelName)
      isLaplacian == toLowerCase(kernelName) = "laplacian"
      tempData == applyConvolution(data, width, height, kernels.kernelX).data
      dataX == applyConvolution(data, width, height, kernels.kernelX).data
      dataY == applyConvolution(data, width, height, kernels.kernelY).data
      outputData ==
        [k \in 1..Len(data) |->
           LET i == 4 * ((k - 1) \div 4)
           IN  IF (k - 1) % 4 = 3 THEN 255
               ELSE IF isLaplacian THEN laplacianBinary(tempData[i + 1], threshold)
               ELSE gradientBinary(dataX[i + 1], dataY[i + 1], threshold)]
  IN  [imageData |-> [width |-> width, height |-> height, data |-> outputData],
       kernelName |-> kernelName,
       kernelX |-> kernels.kernelX,
       kernelY |-> kernels.kernelY,
       threshold |-> threshold]

(***************************************************************************)
(* ImageProcessor: boolean operation with another image                    *)
(***************************************************************************)
\* mutant: xor computed as or
booleanByteXorAsOr(operation, a, b) ==
  IF operation = "and" THEN BitAnd(a, b)
  ELSE IF operation = "or" THEN BitOr(a, b)
  ELSE IF operation = "xor" THEN BitOr(a, b)
  ELSE a

\* mutant: xor computed as and
booleanByteXorAsAnd(operation, a, b) ==
  IF operation = "and" THEN BitAnd(a, b)
  ELSE IF operation = "or" THEN BitOr(a, b)
  ELSE IF operation = "xor" THEN BitAnd(a, b)
  ELSE a

\* the switch of booleanOperation on one colour byte; no case, no change
booleanByte(operation, a, b) ==
  IF operation = "and" THEN BitAnd(a, b)
  ELSE IF operation = "or" THEN BitOr(a, b)
  ELSE IF operation = "xor" THEN BitXor(a, b)
  ELSE a

\* the source image is changed in place and returned; on a length mismatch
\* it is returned as it is
booleanOperation(image, operation, other) ==
  LET data1 == image.data
      data2 == other.data
  IN  IF Len(data1) # Len(data2) THEN image
      ELSE [image EXCEPT !.data =
              [k \in 1..Len(data1) |->
                 IF (k - 1) % 4 = 3 THEN data1[k]
                 ELSE booleanByte(operation, data1[k], data2[k])]]

(***************************************************************************)
(* ImageProcessor: arithmetic with another image                           *)
(***************************************************************************)
\* Math.round(num / den) for den > 0: the nearest integer, a half going up
round(num, den) == (2 * num + den) \div (2 * den)

\* mutant: a value outside 0..255 wraps around as in a Uint8Array
clampWrap(value) == value % 256

\* Math.max(0, Math.min(255, Math.round(value))), value an integer
clamp(value) == IF value < 0 THEN 0 ELSE IF value > 255 THEN 255 ELSE value

\* the switch of arithmeticImage on one colour byte; no case, no change
arithmeticByte(operation, a, b) ==
  IF operation = "add" THEN clamp(a + b)
  ELSE IF operation = "subtract" THEN clamp(a - b)
  ELSE IF operation = "multiply" THEN clamp(round(a * b, 255))
  ELSE a

\* mutant: the sizes compared by width and height
arithmeticImageByDimensions(image, operation, other) ==
  LET data1 == image.data
      data2 == other.data
  IN  IF image.width # other.width \/ image.height # other.height THEN image
      ELSE [image EXCEPT !.data =
              [k \in 1..Len(data1) |->
                 IF (k - 1) % 4 = 3 THEN data1[k]
                 ELSE arithmeticByte(operation, data1[k], data2[k])]]

\* the source image is changed in place and returned; on a length mismatch
\* it is returned as it is
arithmeticImage(image, operation, other) ==
  LET data1 == image.data
      data2 == other.data
  IN  IF Len(data1) # Len(data2) THEN image
      ELSE [image EXCEPT !.data =
              [k \in 1..Len(data1) |->
                 IF (k - 1) % 4 = 3 THEN data1[k]
                 ELSE arithmeticByte(operation, data1[k], data2[k])]]

(***************************************************************************)
(* ImageProcessor: operations on the pixels of one image.  Each one        *)
(* changes the three colour bytes of every pixel of the image read from    *)
(* the canvas and returns it; the alpha byte is not written.               *)
(***************************************************************************)
\* the loop "for i += 4" writing f(r, g, b)[c] to the colour byte c
mapColours(image, f(_, _, _)) ==
  [image EXCEPT !.data =
     [k \in 1..Len(image.data) |->
        LET i == 4 * ((k - 1) \div 4)
            c == (k - 1) % 4
        IN  IF c = 3 THEN image.data[k]
            ELSE f(image.data[i + 1], image.data[i + 2], image.data[i + 3])[c + 1]]]

\* mutant: black at and above the threshold, white below
toBinaryInverted(image, threshold) ==
  LET f(r, g, b) == LET binary == IF luminance(r, g, b) >= threshold THEN 0 ELSE 255
                    IN  <<binary, binary, binary>>
  IN  mapColours(image, f)

toBinary(image, threshold) ==
  LET f(r, g, b) == LET gray == luminance(r, g, b)
                        binary == IF gray >= threshold THEN 255 ELSE 0
                    IN  <<binary, binary, binary>>
  IN  mapColours(image, f)

toGrayscale(image) ==
  LET f(r, g, b) == LET gray == luminance(r, g, b) IN <<gray, gray, gray>>
  IN  mapColours(image, f)

adjustBrightness(image, value) ==
  LET f(r, g, b) == <<clamp(r + value), clamp(g + value), clamp(b + value)>>
  IN  mapColours(image, f)

\* the constant is an integer here, so that Math.round in clamp changes
\* nothing; no case of the switch, no change
arithmeticConstant(image, operation, constant) ==
  LET f(r, g, b) ==
        IF operation = "add"
        THEN <<clamp(r + constant), clamp(g + constant), clamp(b + constant)>>
        ELSE IF operation = "subtract"
        THEN <<clamp(r - constant), clamp(g - constant), clamp(b - constant)>>
        ELSE IF operation = "multiply"
        THEN <<clamp(r * constant), clamp(g * constant), clamp(b * constant)>>
        ELSE <<r, g, b>>
  IN  mapColours(image, f)

(***************************************************************************)
(* ImageProcessor: rotations and flips.  Each one fills a new, zeroed      *)
(* buffer by a double loop over the source pixels (x, y), writing the four *)
(* bytes of the pixel at the destination index the loop body computes.     *)
(***************************************************************************)
\* the loop "for y, for x: dest[destIdx(x, y) + c] = src[srcIdx + c]": a
\* destination byte holds the byte of the last source pixel written there,
\* or the 0 of the new ImageData when no pixel is
copyPixels(srcData, destWidth, destHeight, destIdx(_, _)) ==
  LET width == srcData.width
      height == srcData.height
      src == srcData.data
      writers(k) == {p \in 0..(width * height - 1) :
                      destIdx(p % width, p \div width) = 4 * ((k - 1) \div 4)}
      last(S) == CHOOSE p \in S : \A q \in S : q <= p
  IN  [width |-> destWidth, height |-> destHeight,
       data |-> [k \in 1..(destWidth * destHeight * 4) |->
                   IF writers(k) = {} THEN 0
                   ELSE src[4 * last(writers(k)) + ((k - 1) % 4) + 1]]]

\* mutant: a transposition, destX = y and destY = x
rotate90Transpose(srcData) ==
  LET width == srcData.width
      height == srcData.height
      destIdx(x, y) == (x * height + y) * 4
  IN  copyPixels(srcData, height, width, destIdx)

rotate90(srcData) ==
  LET width == srcData.width
      height == srcData.height
      destIdx(x, y) == LET destX == height - 1 - y
                           destY == x
                       IN  (destY * height + destX) * 4
  IN  copyPixels(srcData, height, width, destIdx)

rotate180(srcData) ==
  LET width == srcData.width
      height == srcData.height
      destIdx(x, y) == LET destX == width - 1 - x
                           destY == height - 1 - y
                       IN  (destY * width + destX) * 4
  IN  copyPixels(srcData, width, height, destIdx)

rotate270(srcData) ==
  LET width == srcData.width
      height == srcData.height
      destIdx(x, y) == LET destX == y
                           destY == width - 1 - x
                       IN  (destY * height + destX) * 4
  IN  copyPixels(srcData, height, width, destIdx)

\* mutant: the row shifted by one pixel, destX = (x + 1) % width
flipHorizontalShift(srcData) ==
  LET width == srcData.width
      height == srcData.height
      destIdx(x, y) == LET destX == (x + 1) % width
                       IN  (y * width + destX) * 4
  IN  copyPixels(srcData, width, height, destIdx)

flipHorizontal(srcData) ==
  LET width == srcData.width
      height == srcData.height
      destIdx(x, y) == LET destX == width - 1 - x
                       IN  (y * width + destX) * 4
  IN  copyPixels(srcData, width, height, destIdx)

flipVertical(srcData) ==
  LET width == srcData.width
      height == srcData.height
      destIdx(x, y) == LET destY == height - 1 - y
                       IN  (destY * width + x) * 4
  IN  copyPixels(srcData, width, height, destIdx)

(***************************************************************************)
(* Numbers that are not integers.  A number is a fraction <<n, d>> in      *)
(* lowest terms with d > 0, and the operations are the exact ones: the     *)
(* rounding of a double to 53 bits is left out.  On the inputs used below  *)
(* the comparisons and the Math.round of the code give what the exact      *)
(* values give.                                                            *)
(***************************************************************************)
RECURSIVE GCD(_, _)
GCD(a, b) == IF b = 0 THEN a ELSE GCD(b, a % b)

\* n / d; a division by 0 gives NaN, <<0, 0>>, for 0 / 0 and the infinities
\* <<1, 0>> and <<-1, 0>> otherwise
rat(n, d) ==
  LET sn == IF d < 0 THEN 0 - n ELSE n
      sd == IF d < 0 THEN 0 - d ELSE d
      g == GCD(IF sn < 0 THEN 0 - sn ELSE sn, sd)
  IN  IF d = 0 THEN <<IF n > 0 THEN 1 ELSE IF n < 0 THEN -1 ELSE 0, 0>>
      ELSE <<sn \div g, sd \div g>>

int(n) == <<n, 1>>

\* the sum over the least common denominator, the product after the common
\* factors are taken out: the same values, in smaller numbers
ratAdd(p, q) ==
  LET g == GCD(p[2], q[2])
  IN  IF g = 0 THEN rat(p[1] * q[2] + q[1] * p[2], p[2] * q[2])
      ELSE rat(p[1] * (q[2] \div g) + q[1] * (p[2] \div g), (p[2] \div g) * q[2])
ratSub(p, q) == ratAdd(p, <<0 - q[1], q[2]>>)
ratMul(p, q) ==
  LET g1 == GCD(IF p[1] < 0 THEN 0 - p[1] ELSE p[1], q[2])
      g2 == GCD(IF q[1] < 0 THEN 0 - q[1] ELSE q[1], p[2])
  IN  IF g1 = 0 \/ g2 = 0 THEN rat(p[1] * q[1], p[2] * q[2])
      ELSE rat((p[1] \div g1) * (q[1] \div g2), (p[2] \div g2) * (q[2] \div g1))
\* p / q, q not 0
ratDiv(p, q) ==
  ratMul(p, IF q[1] < 0 THEN <<0 - q[2], 0 - q[1]>> ELSE <<q[2], q[1]>>)
\* p - q after the factors the two have in common are taken out: its sign
\* is the sign of p - q
ratCompare(p, q) ==
  LET abs(n) == IF n < 0 THEN 0 - n ELSE n
      gd == GCD(p[2], q[2])
      gn == GCD(abs(p[1]), abs(q[1]))
      d == IF gd = 0 THEN 1 ELSE gd
      n == IF gn = 0 THEN 1 ELSE gn
  IN  (p[1] \div n) * (q[2] \div d) - (q[1] \div n) * (p[2] \div d)
ratLess(p, q) == ratCompare(p, q) < 0
ratLeq(p, q) == ratCompare(p, q) <= 0
ratAbs(p) == IF p[1] < 0 THEN <<0 - p[1], p[2]>> ELSE p
ratMax(p, q) == IF ratLess(p, q) THEN q ELSE p
ratMin(p, q) == IF ratLess(q, p) THEN q ELSE p

\* p % m of JavaScript, m a positive integer: the remainder has the sign of p
ratRem(p, m) ==
  LET quotient == IF p[1] < 0 THEN 0 - ((0 - p[1]) \div (m * p[2]))
                  ELSE p[1] \div (m * p[2])
  IN  rat(p[1] - quotient * m * p[2], p[2])

(***************************************************************************)
(* SteganographyAnalyzer.analyzeImage.  The text ratio.toFixed(3) of the   *)
(* result is left out; the ratio is compared as the exact fraction, which  *)
(* orders against 0.4 and 0.6 as the double does for counts up to 1000.    *)
(***************************************************************************)
\* the loop runs over the first sampleSize bytes, alpha bytes included, and
\* skips the alpha bytes; a ratio of NaN (no byte sampled) compares false
analyzeImage(image) ==
  LET data == image.data
      sampleSize == IF Len(data) < 1000 THEN Len(data) ELSE 1000
      sampled == {k \in 1..sampleSize : k % 4 # 0}
      oneCount == Cardinality({k \in sampled : data[k] % 2 = 1})
      zeroCount == Cardinality(sampled) - oneCount
      ratio == rat(oneCount, zeroCount + oneCount)
      isBalanced == /\ ratio[2] # 0
                    /\ ratLess(rat(2, 5), ratio) /\ ratLess(ratio, rat(3, 5))
  IN  [width |-> image.width,
       height |-> image.height,
       capacity |-> calculateCapacity(image.width, image.height),
       lsbRatio |-> [zeros |-> zeroCount, ones |-> oneCount],
       possibleHiddenData |-> isBalanced,
       analysis |-> IF isBalanced THEN "seimbang" ELSE "tidak seimbang"]

(***************************************************************************)
(* HSVAnalyzer                                                             *)
(***************************************************************************)
rgbToHsv(r0, g0, b0) ==
  LET r == rat(r0, 255)
      g == rat(g0, 255)
      b == rat(b0, 255)
      max == ratMax(ratMax(r, g), b)
      min == ratMin(ratMin(r, g), b)
      delta == ratSub(max, min)
      v == ratMul(max, int(100))
      s == IF max # int(0) THEN ratMul(ratDiv(delta, max), int(100)) ELSE int(0)
      h0 == IF delta # int(0)
            THEN IF max = r
                 THEN ratMul(int(60), ratRem(ratDiv(ratSub(g, b), delta), 6))
                 ELSE IF max = g
                 THEN ratMul(int(60), ratAdd(ratDiv(ratSub(b, r), delta), int(2)))
                 ELSE ratMul(int(60), ratAdd(ratDiv(ratSub(r, g), delta), int(4)))
            ELSE int(0)
      h == IF ratLess(h0, int(0)) THEN ratAdd(h0, int(360)) ELSE h0
  IN  [h |-> h, s |-> s, v |-> v]

\* mutant: the chroma added a second time instead of m
hsvToRgbNoOffset(h, s0, v0) ==
  LET s == ratDiv(s0, int(100))
      v == ratDiv(v0, int(100))
      c == ratMul(v, s)
      x == ratMul(c, ratSub(int(1),
                            ratAbs(ratSub(ratRem(ratDiv(h, int(60)), 2), int(1)))))
      rgb == IF ratLess(h, int(60)) THEN <<c, x, int(0)>>
             ELSE IF ratLess(h, int(120)) THEN <<x, c, int(0)>>
             ELSE IF ratLess(h, int(180)) THEN <<int(0), c, x>>
             ELSE IF ratLess(h, int(240)) THEN <<int(0), x, c>>
             ELSE IF ratLess(h, int(300)) THEN <<x, int(0), c>>
             ELSE <<c, int(0), x>>
      scaled(t) == ratMul(ratAdd(t, c), int(255))
  IN  [r |-> round(scaled(rgb[1])[1], scaled(rgb[1])[2]),
       g |-> round(scaled(rgb[2])[1], scaled(rgb[2])[2]),
       b |-> round(scaled(rgb[3])[1], scaled(rgb[3])[2])]

hsvToRgb(h, s0, v0) ==
  LET s == ratDiv(s0, int(100))
      v == ratDiv(v0, int(100))
      c == ratMul(v, s)
      x == ratMul(c, ratSub(int(1),
                            ratAbs(ratSub(ratRem(ratDiv(h, int(60)), 2), int(1)))))
      m == ratSub(v, c)
      rgb == IF ratLess(h, int(60)) THEN <<c, x, int(0)>>
             ELSE IF ratLess(h, int(120)) THEN <<x, c, int(0)>>
             ELSE IF ratLess(h, int(180)) THEN <<int(0), c, x>>
             ELSE IF ratLess(h, int(240)) THEN <<int(0), x, c>>
             ELSE IF ratLess(h, int(300)) THEN <<x, int(0), c>>
             ELSE <<c, int(0), x>>
      scaled(t) == ratMul(ratAdd(t, m), int(255))
  IN  [r |-> round(scaled(rgb[1])[1], scaled(rgb[1])[2]),
       g |-> round(scaled(rgb[2])[1], scaled(rgb[2])[2]),
       b |-> round(scaled(rgb[3])[1], scaled(rgb[3])[2])]

\* a field of the options object, or its default when the field is absent
option(options, field, default) ==
  IF field \in DOMAIN options THEN options[field] ELSE default

\* mutant: saturation and value strictly above their minimum
isGreenStrict(hsv, hueMin, hueMax, saturationMin, valueMin) ==
  /\ ratLeq(int(hueMin), hsv.h)
  /\ ratLeq(hsv.h, int(hueMax))
  /\ ratLess(int(saturationMin), hsv.s)
  /\ ratLess(int(valueMin), hsv.v)

isGreen(hsv, hueMin, hueMax, saturationMin, valueMin) ==
  /\ ratLeq(int(hueMin), hsv.h)
  /\ ratLeq(hsv.h, int(hueMax))
  /\ ratLeq(int(saturationMin), hsv.s)
  /\ ratLeq(int(valueMin), hsv.v)

detectGreen(imageData_, options) ==
  LET hueMin == option(options, "hueMin", 90)
      hueMax == option(options, "hueMax", 180)
      saturationMin == option(options, "saturationMin", 20)
      valueMin == option(options, "valueMin", 10)
      colorOutput == option(options, "colorOutput", FALSE)
      data == imageData_.data
  IN  [width |-> imageData_.width, height |-> imageData_.height,
       data |-> [k \in 1..Len(data) |->
                   LET i == 4 * ((k - 1) \div 4)
                       c == (k - 1) % 4
                       hsv == rgbToHsv(data[i + 1], data[i + 2], data[i + 3])
                   IN  IF isGreen(hsv, hueMin, hueMax, saturationMin, valueMin)
                       THEN IF colorOutput THEN data[k] ELSE 255
                       ELSE IF c = 3 THEN 255 ELSE 0]]

\* the loop of analyzeGreenStatistics from pixel p on: the entries pushed to
\* greenPixelsList, in the order of the loop
RECURSIVE greenPixelsFrom(_, _, _, _, _, _)
greenPixelsFrom(data, p, hueMin, hueMax, saturationMin, valueMin) ==
  IF 4 * p >= Len(data) THEN <<>>
  ELSE LET r == data[4 * p + 1]
           g == data[4 * p + 2]
           b == data[4 * p + 3]
       IN  (CHOOSE entry \in
              {IF isGreen(hsv, hueMin, hueMax, saturationMin, valueMin)
               THEN <<[r |-> r, g |-> g, b |-> b, h |-> hsv.h, s |-> hsv.s, v |-> hsv.v]>>
               ELSE <<>> : hsv \in {rgbToHsv(r, g, b)}} : TRUE)
             \o greenPixelsFrom(data, p + 1, hueMin, hueMax, saturationMin, valueMin)

\* the statistics object; greenPixels is incremented with every push.
\* greenPercentage, avgHue, avgSaturation and avgValue, texts that toFixed(2)
\* makes of a double, are left out.
greenStatistics(totalPixels, greenPixelsList) ==
  [totalPixels |-> totalPixels,
   greenPixels |-> Len(greenPixelsList),
   greenPixelsList |-> greenPixelsList,
   hueValues |-> [i \in 1..Len(greenPixelsList) |-> greenPixelsList[i].h],
   saturationValues |-> [i \in 1..Len(greenPixelsList) |-> greenPixelsList[i].s],
   valueValues |-> [i \in 1..Len(greenPixelsList) |-> greenPixelsList[i].v]]

\* mutant: the options ignored, the defaults used
analyzeGreenStatisticsDefaults(imageData_, options) ==
  CHOOSE stats \in
    {greenStatistics(imageData_.width * imageData_.height, list) :
       list \in {greenPixelsFrom(imageData_.data, 0, 90, 180, 20, 10)}} : TRUE

analyzeGreenStatistics(imageData_, options) ==
  CHOOSE stats \in
    {greenStatistics(imageData_.width * imageData_.height, list) :
       list \in {greenPixelsFrom(imageData_.data, 0,
                                  option(options, "hueMin", 90),
                                  option(options, "hueMax", 180),
                                  option(options, "saturationMin", 20),
                                  option(options, "valueMin", 10))}} : TRUE

(***************************************************************************)
(* StatisticalAnalyzer.  The values it returns are not all fractions: a    *)
(* correlation and a skewness hold a square root, an entropy logarithms.   *)
(* A number with a root is a record [coef, rad], the value coef *          *)
(* sqrt(rad) with coef and rad fractions, a fraction having rad = 1.  An   *)
(* entropy is a record [n, power]: the value log2(n) - log2(power) / n,    *)
(* power being the product of c^c over the counts c of the histogram.      *)
(***************************************************************************)
real(q) == [coef |-> q, rad |-> int(1)]

\* the array of the differences arr[i] - mean
differences(arr, mean) == [i \in 1..Len(arr) |-> ratSub(int(arr[i]), mean)]

\* reduce((a, b) => a + b, 0) on an array of fractions
RECURSIVE ratSum(_)
ratSum(arr) == IF Len(arr) = 0 THEN int(0) ELSE ratAdd(Head(arr), ratSum(Tail(arr)))

calculateMean(arr) == ratDiv(ratSum([i \in 1..Len(arr) |-> int(arr[i])]), int(Len(arr)))

\* the variance whose square root calculateStdDev returns; a mean of 0 or
\* NaN is taken as no mean and computed again
variance(arr, mean0) ==
  LET mean == IF mean0 \in {int(0), <<0, 0>>} THEN calculateMean(arr) ELSE mean0
      d == differences(arr, mean)
      squaredDifferences == [i \in 1..Len(arr) |-> ratMul(d[i], d[i])]
  IN  ratDiv(ratSum(squaredDifferences), int(Len(arr)))

\* numerator / sqrt(product) is (numerator / product) * sqrt(product)
calculatePearsonCorrelation(channel1, channel2) ==
  IF Len(channel1) # Len(channel2) \/ Len(channel1) = 0 THEN real(int(0))
  ELSE
    LET diff1 == differences(channel1, calculateMean(channel1))
        diff2 == differences(channel2, calculateMean(channel2))
        n == Len(channel1)
        numerator == ratSum([i \in 1..n |-> ratMul(diff1[i], diff2[i])])
        sum1Sq == ratSum([i \in 1..n |-> ratMul(diff1[i], diff1[i])])
        sum2Sq == ratSum([i \in 1..n |-> ratMul(diff2[i], diff2[i])])
        product == ratMul(sum1Sq, sum2Sq)
    IN  IF product = int(0) THEN real(int(0))
        ELSE [coef |-> ratDiv(numerator, product), rad |-> product]

\* ((x - mean) / stdDev)^3 is ((x - mean)^3 / variance^2) * stdDev: the sum
\* of the cubes over n has the coefficient below and the root of the variance
calculateSkewness(arr) ==
  IF Len(arr) < 3 THEN real(int(0))
  ELSE
    LET mean == calculateMean(arr)
        var == variance(arr, mean)
        n == Len(arr)
        d == differences(arr, mean)
        cubes == [i \in 1..n |->
                    ratDiv(ratMul(d[i], ratMul(d[i], d[i])), ratMul(var, var))]
    IN  IF var = int(0) THEN real(int(0))
        ELSE [coef |-> ratDiv(ratSum(cubes), int(n)), rad |-> var]

\* mutant: arrays of three elements accepted
calculateKurtosisFromThree(arr) ==
  IF Len(arr) < 3 THEN real(int(0))
  ELSE
    LET mean == calculateMean(arr)
        var == variance(arr, mean)
        n == Len(arr)
        d == differences(arr, mean)
        fourths == [i \in 1..n |->
                      LET sq == ratDiv(ratMul(d[i], d[i]), var) IN ratMul(sq, sq)]
    IN  IF var = int(0) THEN real(int(0))
        ELSE real(ratSub(ratDiv(ratSum(fourths), int(n)), int(3)))

\* ((x - mean) / stdDev)^4 is ((x - mean)^2 / variance)^2
calculateKurtosis(arr) ==
  IF Len(arr) < 4 THEN real(int(0))
  ELSE
    LET mean == calculateMean(arr)
        var == variance(arr, mean)
        n == Len(arr)
        d == differences(arr, mean)
        fourths == [i \in 1..n |->
                      LET sq == ratDiv(ratMul(d[i], d[i]), var) IN ratMul(sq, sq)]
    IN  IF var = int(0) THEN real(int(0))
        ELSE real(ratSub(ratDiv(ratSum(fourths), int(n)), int(3)))

\* histogram[v] of calculateEntropy and calculateChiSquare
histogram(arr, v) == Cardinality({i \in 1..Len(arr) : arr[i] = v})

RECURSIVE IntPow(_, _)
IntPow(b, e) == IF e = 0 THEN 1 ELSE b * IntPow(b, e - 1)

RECURSIVE ProductOfPowers(_, _)
ProductOfPowers(arr, values) ==
  IF values = {} THEN 1
  ELSE LET v == CHOOSE v \in values : TRUE
           c == histogram(arr, v)
       IN  IntPow(c, c) * ProductOfPowers(arr, values \ {v})

\* -sum p log2 p over the bins with p = c / n > 0
calculateEntropy(arr) ==
  [n |-> Len(arr),
   power |-> ProductOfPowers(arr, {arr[i] : i \in 1..Len(arr)})]

\* the sum of the terms bins[v] of the values v in S
RECURSIVE sumBins(_, _)
sumBins(bins, S) ==
  IF S = {} THEN int(0)
  ELSE LET v == CHOOSE v \in S : TRUE
       IN  ratAdd(bins[v], sumBins(bins, S \ {v}))

\* the sum over the 256 bins of (observed - expected)^2 / expected: the
\* terms of the bins that hold a value, and expected for each empty bin
calculateChiSquare(arr) ==
  LET expectedFrequency == rat(Len(arr), 256)
      values == {arr[i] : i \in 1..Len(arr)}
      bins == [v \in values |->
                 LET diff == ratSub(int(histogram(arr, v)), expectedFrequency)
                 IN  ratDiv(ratMul(diff, diff), expectedFrequency)]
  IN  IF ratLess(int(0), expectedFrequency)
      THEN real(ratAdd(sumBins(bins, values),
                       ratMul(int(256 - Cardinality(values)), expectedFrequency)))
      ELSE real(int(0))

extractPixelValues(image) ==
  LET n == Len(image.data) \div 4
  IN  [r |-> [p \in 1..n |-> image.data[4 * (p - 1) + 1]],
       g |-> [p \in 1..n |-> image.data[4 * (p - 1) + 2]],
       b |-> [p \in 1..n |-> image.data[4 * (p - 1) + 3]]]

\* the methods calculateAllStatistics calls, in order; each one starts with
\* its own call of extractPixelValues
calculateAllCalls ==
  <<"calculateAllPearsonCorrelations", "calculateAllSkewness", "calculateAllKurtosis",
    "calculateAllEntropy", "calculateAllChiSquare">>

\* the runs of extractPixelValues during one calculateAllStatistics
extractPixelValuesRuns == Len(calculateAllCalls)

calculateAllStatistics(image) ==
  LET px == extractPixelValues(image)
  IN  [pearsonCorrelation |->
         [RG |-> calculatePearsonCorrelation(px.r, px.g),
          RB |-> calculatePearsonCorrelation(px.r, px.b),
          GB |-> calculatePearsonCorrelation(px.g, px.b)],
       skewness |-> [R |-> calculateSkewness(px.r), G |-> calculateSkewness(px.g),
                     B |-> calculateSkewness(px.b)],
       kurtosis |-> [R |-> calculateKurtosis(px.r), G |-> calculateKurtosis(px.g),
                     B |-> calculateKurtosis(px.b)],
       entropy |-> [R |-> calculateEntropy(px.r), G |-> calculateEntropy(px.g),
                    B |-> calculateEntropy(px.b)],
       chiSquare |-> [R |-> calculateChiSquare(px.r), G |-> calculateChiSquare(px.g),
                      B |-> calculateChiSquare(px.b)]]

\* x <= y for two numbers with a root: by their signs, then by their squares
realLeq(x, y) ==
  LET sq(z) == ratMul(ratMul(z.coef, z.coef), z.rad)
  IN  IF ratLess(x.coef, int(0))
      THEN IF ratLess(y.coef, int(0)) THEN ratLeq(sq(y), sq(x)) ELSE TRUE
      ELSE IF ratLess(y.coef, int(0)) THEN FALSE ELSE ratLeq(sq(x), sq(y))

\* x <= y for the entropies of two arrays of one length: log2 grows
entropyLeq(x, y) == y.power <= x.power

\* Math.abs(x - y): the larger value minus the smaller one
absDifference(x, y) ==
  IF realLeq(y, x) THEN [minuend |-> x, subtrahend |-> y]
  ELSE [minuend |-> y, subtrahend |-> x]

absEntropyDifference(x, y) ==
  IF entropyLeq(y, x) THEN [minuend |-> x, subtrahend |-> y]
  ELSE [minuend |-> y, subtrahend |-> x]

\* the value compareWithImage returns for the statistics of two images
differencesOfStatistics(stats1, stats2) ==
  LET diff3(a, b) == [R |-> absDifference(a.R, b.R), G |-> absDifference(a.G, b.G),
                      B |-> absDifference(a.B, b.B)]
  IN  [pearsonCorrelationDiff |->
         [RG |-> absDifference(stats1.pearsonCorrelation.RG, stats2.pearsonCorrelation.RG),
          RB |-> absDifference(stats1.pearsonCorrelation.RB, stats2.pearsonCorrelation.RB),
          GB |-> absDifference(stats1.pearsonCorrelation.GB, stats2.pearsonCorrelation.GB)],
       skewnessDiff |-> diff3(stats1.skewness, stats2.skewness),
       kurtosisDiff |-> diff3(stats1.kurtosis, stats2.kurtosis),
       entropyDiff |->
         [R |-> absEntropyDifference(stats1.entropy.R, stats2.entropy.R),
          G |-> absEntropyDifference(stats1.entropy.G, stats2.entropy.G),
          B |-> absEntropyDifference(stats1.entropy.B, stats2.entropy.B)],
       chiSquareDiff |-> diff3(stats1.chiSquare, stats2.chiSquare),
       image1Stats |-> stats1,
       image2Stats |-> stats2]

\* mutant: an error only when width and height both differ
compareWithImageBothDiffer(image, otherImageData_) ==
  IF otherImageData_.width # image.width /\ otherImageData_.height # image.height
  THEN [error |-> "Ukuran gambar harus sama untuk perbandingan!"]
  ELSE CHOOSE r \in {differencesOfStatistics(stats1, stats2) :
                       stats1 \in {calculateAllStatistics(image)},
                       stats2 \in {calculateAllStatistics(otherImageData_)}} : TRUE

\* stats1 and stats2 are computed once each, then the differences
compareWithImage(image, otherImageData_) ==
  IF otherImageData_.width # image.width \/ otherImageData_.height # image.height
  THEN [error |-> "Ukuran gambar harus sama untuk perbandingan!"]
  ELSE CHOOSE r \in {differencesOfStatistics(stats1, stats2) :
                       stats1 \in {calculateAllStatistics(image)},
                       stats2 \in {calculateAllStatistics(otherImageData_)}} : TRUE

(***************************************************************************)
(* Inputs of the steganography codec                                       *)
(***************************************************************************)
\* byte j (0-based) of the three test fills: transparent black, opaque
\* white, and an opaque image whose colour bytes vary
fillByte(fill, j) ==
  IF fill = "zero" THEN 0
  ELSE IF fill = "ones" THEN 255
  ELSE IF j % 4 = 3 THEN 255 ELSE (j * 37 + 11) % 256

Fills == {"zero", "ones", "ramp"}

makeImage(width, height, fill) ==
  [width |-> width, height |-> height,
   data |-> [j \in 1..(width * height * 4) |-> fillByte(fill, j - 1)]]

StegoImages ==
  {makeImage(w, h, f) : w \in 1..MaxWidth, h \in 1..MaxHeight, f \in Fills}

\* character codes of the texts: NUL, "a", DEL, and two codes above 127
Alphabet == {0, 97, 127, 233, 300}

RECURSIVE SeqsUpTo(_, _)
SeqsUpTo(S, n) ==
  IF n = 0 THEN {<<>>}
  ELSE LET shorter == SeqsUpTo(S, n - 1)
       IN  shorter \cup {Append(s, c) : s \in shorter, c \in S}

\* texts that hold the delimiter, and texts that end in a part of it
DelimiterTexts ==
  {pre \o END_DELIMITER \o post :
     pre \in SeqsUpTo({97}, MaxAffix), post \in SeqsUpTo({97}, MaxAffix)}

PrefixTexts == {SubSeq(END_DELIMITER, 1, n) : n \in 1..(Len(END_DELIMITER) - 1)}

Texts == SeqsUpTo(Alphabet, MaxTextLen) \cup DelimiterTexts \cup PrefixTexts

NoImage == [width |-> 0, height |-> 0, data |-> <<>>]
NoResult == [none |-> TRUE]

(***************************************************************************)
(* The steganography codec as a state machine: an image is loaded, a text  *)
(* is encoded into it, and the encoded image or the loaded image is        *)
(* decoded.                                                                *)
(***************************************************************************)
InitStego ==
  /\ imageData \in StegoImages
  /\ otherImageData = NoImage
  /\ op = [name |-> "load"]
  /\ result = NoResult

Encode(t) ==
  /\ op.name = "load"
  /\ op' = [name |-> "encode", text |-> t]
  /\ result' = encode(imageData, t)
  /\ UNCHANGED <<imageData, otherImageData>>

DecodeEncoded ==
  /\ op.name = "encode"
  /\ result.success
  /\ op' = [name |-> "decode", image |-> result.imageData,
            encoded |-> TRUE, text |-> op.text]
  /\ result' = decode(result.imageData)
  /\ UNCHANGED <<imageData, otherImageData>>

DecodeImage ==
  /\ op.name = "load"
  /\ op' = [name |-> "decode", image |-> imageData,
            encoded |-> FALSE, text |-> <<>>]
  /\ result' = decode(imageData)
  /\ UNCHANGED <<imageData, otherImageData>>

ResetSteganography ==
  /\ op.name # "load"
  /\ op' = [name |-> "load"]
  /\ result' = NoResult
  /\ UNCHANGED <<imageData, otherImageData>>

NextStego ==
  \/ \E t \in Texts : Encode(t)
  \/ DecodeEncoded
  \/ DecodeImage
  \/ ResetSteganography

SpecStego == InitStego /\ [][NextStego]_vars

(***************************************************************************)
(* Properties of the steganography codec                                   *)
(***************************************************************************)
\* every character of the text has a codepoint in 0..127
Ascii(text) == \A k \in 1..Len(text) : text[k] >= 0 /\ text[k] <= 127

\* the text holds the string somewhere
Contains(text, str) ==
  \E k \in 1..(Len(text) - Len(str) + 1) :
     SubSeq(text, k, k + Len(str) - 1) = str

Pixels(image) == image.width * image.height

\* the message and its delimiter fit the image
Fits(image, text) == 8 * (Len(text) + 7) <= Pixels(image) * 3

\* the code of the g-th complete 8-bit group (g from 1) of the least
\* significant bits of the colour bytes, read in raster order
GroupCode(image, g) ==
  LET bitAt(n) == image.data[4 * ((n - 1) \div 3) + ((n - 1) % 3) + 1] % 2
  IN  128 * bitAt(8 * g - 7) + 64 * bitAt(8 * g - 6) + 32 * bitAt(8 * g - 5)
      + 16 * bitAt(8 * g - 4) + 8 * bitAt(8 * g - 3) + 4 * bitAt(8 * g - 2)
      + 2 * bitAt(8 * g - 1) + bitAt(8 * g)

\* the complete groups decode can reach: those of the image, at most the
\* SAFETY_LIMIT \div 8 first
Groups(image) ==
  LET n == (Pixels(image) * 3) \div 8
  IN  1..(IF n > SAFETY_LIMIT \div 8 THEN SAFETY_LIMIT \div 8 ELSE n)

\* the codes at most 127 among the groups, in order
RECURSIVE AcceptedUpTo(_, _)
AcceptedUpTo(image, g) ==
  IF g = 0 THEN <<>>
  ELSE IF GroupCode(image, g) <= 127
       THEN Append(AcceptedUpTo(image, g - 1), GroupCode(image, g))
       ELSE AcceptedUpTo(image, g - 1)

Accepted(image) == AcceptedUpTo(image, Cardinality(Groups(image)))

\* C1 as claimed: for every pixel buffer and every text of codepoints 0..127
\* that fits it, decoding the encoded buffer succeeds with the original text
\* and without a warning.
C1_RoundTripEveryText ==
  (op.name = "decode" /\ op.encoded /\ Ascii(op.text) /\ Fits(imageData, op.text))
    => /\ result.success
       /\ result.text = op.text
       /\ "warning" \notin DOMAIN result

\* C1 amended: the round trip holds for every text of codepoints 0..127 that
\* fits the buffer, does not hold the delimiter "<<END>>" and whose message
\* with delimiter is at most 1,000,000 bits long.
C1_RoundTrip ==
  (/\ op.name = "decode" /\ op.encoded
   /\ Ascii(op.text) /\ Fits(imageData, op.text)
   /\ ~Contains(op.text, END_DELIMITER)
   /\ 8 * (Len(op.text) + 7) <= SAFETY_LIMIT)
    => /\ result.success
       /\ result.text = op.text
       /\ "warning" \notin DOMAIN result

\* a text of two characters, one of them DEL, came back from a buffer whose
\* bytes vary
C1_Witness ==
  /\ op.name = "decode" /\ op.encoded
  /\ Len(op.text) = 2 /\ 127 \in {op.text[1], op.text[2]} /\ Ascii(op.text)
  /\ imageData.data[1] # imageData.data[2]
  /\ result.success /\ result.text = op.text

\* C2: for a text of codepoints 0..127, encode fails, without imageData,
\* exactly when 8*(text.length+7) > width*height*3, and then reports
\* maxCharacters = floor(width*height*3/8); otherwise it succeeds.
C2_EncodeFailsIffOverCapacity ==
  (op.name = "encode" /\ Ascii(op.text))
    => /\ result.success = FALSE <=> 8 * (Len(op.text) + 7) > Pixels(imageData) * 3
       /\ ~result.success =>
            /\ "imageData" \notin DOMAIN result
            /\ result.maxCharacters = (Pixels(imageData) * 3) \div 8
       /\ result.success => "imageData" \in DOMAIN result

\* encode refused a text that is one bit group too long for the image
C2_Witness ==
  /\ op.name = "encode" /\ Ascii(op.text) /\ Len(op.text) > 0
  /\ ~result.success
  /\ 8 * (Len(op.text) + 6) <= Pixels(imageData) * 3

\* a text of n letters "a"
Letters(n) == [k \in 1..n |-> 97]

\* C3 as claimed: when encode fails for lack of capacity (on an image that can
\* hold some text), a text of exactly maxCharacters characters is accepted on
\* the same image and no longer one is.
C3_MaxCharactersIsEncodable ==
  (op.name = "encode" /\ Ascii(op.text) /\ ~result.success /\ Fits(imageData, <<>>))
    => /\ encode(imageData, Letters(result.maxCharacters)).success
       /\ ~encode(imageData, Letters(result.maxCharacters + 1)).success

\* C4: when the accepted characters never complete the delimiter, decode
\* returns them with a warning if there is at least one, and fails if and
\* only if there is none; success without a warning needs the delimiter.
C4_DecodeWithoutDelimiter ==
  op.name = "decode" =>
    LET accepted == Accepted(op.image)
    IN  /\ ~Contains(accepted, END_DELIMITER) =>
             /\ Len(accepted) > 0 =>
                  /\ result.success
                  /\ result.text = accepted
                  /\ "warning" \in DOMAIN result
             /\ ~result.success <=> Len(accepted) = 0
        /\ (result.success /\ "warning" \notin DOMAIN result)
             => Contains(accepted, END_DELIMITER)

\* decode of a loaded image gave text with a warning, one group being dropped
C4_Witness ==
  /\ op.name = "decode" /\ ~op.encoded
  /\ result.success /\ "warning" \in DOMAIN result
  /\ Len(result.text) > 0
  /\ Len(result.text) < Cardinality(Groups(op.image))

\* C5 as claimed: decode fails for every buffer from which no
\* delimiter-terminated text can be extracted.
C5_FailsWithoutDelimiter ==
  (op.name = "decode" /\ ~Contains(Accepted(op.image), END_DELIMITER))
    => ~result.success

AllZero(image) == \A k \in 1..Len(image.data) : image.data[k] = 0

\* C5 amended: decode fails exactly when no complete 8-bit group of the
\* stream (among the first 125,000) has a code of at most 127; an all-zero
\* image of three pixels or more decodes to NUL characters with a warning.
C5_FailsIffNothingAccepted ==
  op.name = "decode" =>
    /\ ~result.success <=> \A g \in Groups(op.image) : GroupCode(op.image, g) > 127
    /\ (AllZero(op.image) /\ Pixels(op.image) >= 3) =>
          /\ result.success
          /\ "warning" \in DOMAIN result
          /\ \A k \in 1..Len(result.text) : result.text[k] = 0

\* an all-zero image of three pixels or more was decoded
C5_Witness ==
  /\ op.name = "decode" /\ ~op.encoded
  /\ AllZero(op.image) /\ Pixels(op.image) >= 3
  /\ result.success

(***************************************************************************)
(* Inputs of the edge detector: images of two colours, the second one on   *)
(* the pixels of a shape                                                   *)
(***************************************************************************)
EdgeColours == {<<0, 0, 0, 255>>, <<255, 255, 255, 255>>, <<100, 150, 200, 255>>,
                <<255, 0, 0, 128>>}

Shapes == {"dot", "column", "row", "diagonal"}

inShape(shape, x, y) ==
  IF shape = "dot" THEN x = 1 /\ y = 1
  ELSE IF shape = "column" THEN x = 0
  ELSE IF shape = "row" THEN y = 0
  ELSE x = y

shapeImage(width, height, shape, bg, fg) ==
  [width |-> width, height |-> height,
   data |-> [k \in 1..(width * height * 4) |->
               LET p == (k - 1) \div 4
                   colour == IF inShape(shape, p % width, p \div width) THEN fg ELSE bg
               IN  colour[((k - 1) % 4) + 1]]]

EdgeImages ==
  {shapeImage(w, h, sh, bg, fg) :
     w \in 1..MaxEdgeDim, h \in 1..MaxEdgeDim, sh \in Shapes,
     bg \in EdgeColours, fg \in EdgeColours}

KernelNames == {"sobel", "prewitt", "roberts", "laplacian", "LAPLACIAN", "canny"}

Thresholds == {0, 1, 50, 128, 255}

(***************************************************************************)
(* The edge detector as a state machine: an image is loaded, edges are     *)
(* detected with a kernel and a threshold, and the result is reset.  A     *)
(* detection reads the source image only, so every call starts from the    *)
(* loaded image.                                                           *)
(***************************************************************************)
InitEdge ==
  /\ imageData \in EdgeImages
  /\ otherImageData = NoImage
  /\ op = [name |-> "load"]
  /\ result = NoResult

DetectEdges(kernelName, threshold) ==
  /\ op.name = "load"
  /\ op' = [name |-> "detectEdges", kernelName |-> kernelName,
            threshold |-> threshold]
  /\ result' = detectEdges(imageData, kernelName, threshold)
  /\ UNCHANGED <<imageData, otherImageData>>

ResetEdgeDetection ==
  /\ op.name # "load"
  /\ op' = [name |-> "load"]
  /\ result' = NoResult
  /\ UNCHANGED <<imageData, otherImageData>>

NextEdge ==
  \/ \E k \in KernelNames, t \in Thresholds : DetectEdges(k, t)
  \/ ResetEdgeDetection

SpecEdge == InitEdge /\ [][NextEdge]_vars

(***************************************************************************)
(* Properties of the edge detector                                         *)
(***************************************************************************)
\* the pixels the kernel fully overlaps
Interior(image, kernel) ==
  LET off == Len(kernel) \div 2
  IN  {xy \in (0..(image.width - 1)) \X (0..(image.height - 1)) :
         /\ xy[1] >= off /\ xy[1] < image.width - off
         /\ xy[2] >= off /\ xy[2] < image.height - off}

AllPixels(image) == (0..(image.width - 1)) \X (0..(image.height - 1))

\* the gray value of pixel (x, y)
Gray(image, x, y) ==
  LET b == 4 * (y * image.width + x)
  IN  luminance(image.data[b + 1], image.data[b + 2], image.data[b + 3])

RECURSIVE SumOver(_, _)
SumOver(f, S) ==
  IF S = {} THEN 0
  ELSE LET e == CHOOSE e \in S : TRUE IN f[e] + SumOver(f, S \ {e})

\* the convolution sum at (x, y): every kernel cell times the gray value
\* under it, the kernel placed with its cell (off, off) on the pixel
RawSum(image, kernel, x, y) ==
  LET n == Len(kernel)
      off == n \div 2
      cells == (1..n) \X (1..n)
  IN  SumOver([c \in cells |->
                 kernel[c[1]][c[2]] * Gray(image, x + c[2] - 1 - off, y + c[1] - 1 - off)],
              cells)

\* byte ch (1 = R .. 4 = A) of pixel (x, y)
ByteAt(image, x, y, ch) == image.data[4 * (y * image.width + x) + ch]

IsWhite(image, x, y) ==
  ByteAt(image, x, y, 1) = 255 /\ ByteAt(image, x, y, 2) = 255 /\ ByteAt(image, x, y, 3) = 255

IsBlack(image, x, y) ==
  ByteAt(image, x, y, 1) = 0 /\ ByteAt(image, x, y, 2) = 0 /\ ByteAt(image, x, y, 3) = 0

IsLaplacianRun == op.name = "detectEdges" /\ toLowerCase(op.kernelName) = "laplacian"

IsPairRun == op.name = "detectEdges" /\ op.kernelName \in {"sobel", "prewitt", "roberts"}

\* C6 as claimed: on the Laplacian path every interior pixel is white if and
\* only if the absolute value of its convolution sum is greater than the
\* threshold, and black otherwise.
C6_LaplacianAbsoluteValue ==
  IsLaplacianRun =>
    \A xy \in Interior(imageData, LAPLACIAN) :
      IF Abs(RawSum(imageData, LAPLACIAN, xy[1], xy[2])) > op.threshold
      THEN IsWhite(result.imageData, xy[1], xy[2])
      ELSE IsBlack(result.imageData, xy[1], xy[2])

\* C7: on the directional-pair path every output pixel is white if and only
\* if sqrt(Gx^2 + Gy^2) > threshold, Gx and Gy being the values the pass with
\* the X kernel and the pass with the Y kernel produced there; else black.
C7_GradientMagnitude ==
  IsPairRun =>
    LET kernels == getKernel(op.kernelName)
        passX == applyConvolution(imageData.data, imageData.width, imageData.height,
                                  kernels.kernelX).data
        passY == applyConvolution(imageData.data, imageData.width, imageData.height,
                                  kernels.kernelY).data
    IN  \A xy \in AllPixels(imageData) :
          LET gx == passX[4 * (xy[2] * imageData.width + xy[1]) + 1]
              gy == passY[4 * (xy[2] * imageData.width + xy[1]) + 1]
          IN  IF gx * gx + gy * gy > op.threshold * op.threshold
              THEN IsWhite(result.imageData, xy[1], xy[2])
              ELSE IsBlack(result.imageData, xy[1], xy[2])

\* a pair run with a white pixel and with a black pixel of non-zero gradient
C7_Witness ==
  /\ IsPairRun
  /\ \E xy \in AllPixels(imageData) : IsWhite(result.imageData, xy[1], xy[2])
  /\ \E xy \in Interior(imageData, result.kernelX) :
        /\ IsBlack(result.imageData, xy[1], xy[2])
        /\ \/ RawSum(imageData, result.kernelX, xy[1], xy[2]) > 0
           \/ RawSum(imageData, result.kernelY, xy[1], xy[2]) > 0

\* all pixels have the same R, G, B
Uniform(image) ==
  \A xy \in AllPixels(image) : \A ch \in 1..3 :
     ByteAt(image, xy[1], xy[2], ch) = ByteAt(image, 0, 0, ch)

\* C8: on a uniform image, for the four kernels and every threshold in
\* 1..255, the convolution sum is 0 at every interior pixel and the output is
\* black at every pixel.
C8_UniformImageIsBlack ==
  (/\ op.name = "detectEdges"
   /\ op.kernelName \in {"sobel", "prewitt", "roberts", "laplacian"}
   /\ op.threshold \in 1..255
   /\ Uniform(imageData))
    => /\ \A xy \in Interior(imageData, result.kernelX) :
            /\ RawSum(imageData, result.kernelX, xy[1], xy[2]) = 0
            /\ op.kernelName # "laplacian" =>
                 RawSum(imageData, result.kernelY, xy[1], xy[2]) = 0
       /\ \A xy \in AllPixels(imageData) : IsBlack(result.imageData, xy[1], xy[2])

\* the Laplacian ran on a uniform image that is not black and has interior
\* pixels
C8_Witness ==
  /\ op.name = "detectEdges" /\ op.kernelName = "laplacian" /\ op.threshold = 1
  /\ Uniform(imageData) /\ Gray(imageData, 0, 0) > 0
  /\ Interior(imageData, LAPLACIAN) # {}

\* C9: a pixel that is white at a threshold is white at every lower
\* threshold, for the same image and kernel.
C9_ThresholdMonotone ==
  op.name = "detectEdges" =>
    \A t2 \in Thresholds :
      t2 >= op.threshold =>
        LET higher == detectEdges(imageData, op.kernelName, t2).imageData
        IN  \A xy \in AllPixels(imageData) :
              IsWhite(higher, xy[1], xy[2]) => IsWhite(result.imageData, xy[1], xy[2])

\* a run with a white pixel that a higher threshold of the model turns black
C9_Witness ==
  /\ op.name = "detectEdges"
  /\ \E t2 \in Thresholds :
       /\ t2 > op.threshold
       /\ \E xy \in AllPixels(imageData) :
            /\ IsWhite(result.imageData, xy[1], xy[2])
            /\ IsBlack(detectEdges(imageData, op.kernelName, t2).imageData, xy[1], xy[2])

(***************************************************************************)
(* Inputs of the two-image operations: images of one colour but for the    *)
(* first pixel; the colours are opaque, half transparent and transparent   *)
(***************************************************************************)
ProcColours == {<<170, 85, 204, 255>>, <<15, 240, 51, 128>>, <<0, 0, 0, 0>>}

procImage(width, height, bg, fg) ==
  [width |-> width, height |-> height,
   data |-> [k \in 1..(width * height * 4) |->
               LET colour == IF (k - 1) \div 4 = 0 THEN fg ELSE bg
               IN  colour[((k - 1) % 4) + 1]]]

ProcImages ==
  {procImage(w, h, bg, fg) :
     w \in 1..MaxProcDim, h \in 1..MaxProcDim, bg \in ProcColours, fg \in ProcColours}

BooleanOps == {"and", "or", "xor", "nand"}

ArithmeticOps == {"add", "subtract", "multiply", "divide"}

(***************************************************************************)
(* The two-image operations as a state machine: a source image and a       *)
(* second image are loaded, an operation is applied, the result is reset.  *)
(***************************************************************************)
InitProc ==
  /\ imageData \in ProcImages
  /\ otherImageData \in ProcImages
  /\ op = [name |-> "load"]
  /\ result = NoResult

BooleanOperation(operation) ==
  /\ op.name = "load"
  /\ op' = [name |-> "booleanOperation", operation |-> operation]
  /\ result' = booleanOperation(imageData, operation, otherImageData)
  /\ UNCHANGED <<imageData, otherImageData>>

ArithmeticImage(operation) ==
  /\ op.name = "load"
  /\ op' = [name |-> "arithmeticImage", operation |-> operation]
  /\ result' = arithmeticImage(imageData, operation, otherImageData)
  /\ UNCHANGED <<imageData, otherImageData>>

ResetProc ==
  /\ op.name # "load"
  /\ op' = [name |-> "load"]
  /\ result' = NoResult
  /\ UNCHANGED <<imageData, otherImageData>>

NextProc ==
  \/ \E o \in BooleanOps : BooleanOperation(o)
  \/ \E o \in ArithmeticOps : ArithmeticImage(o)
  \/ ResetProc

SpecProc == InitProc /\ [][NextProc]_vars

(***************************************************************************)
(* Properties of the two-image operations                                  *)
(***************************************************************************)
\* and, or, xor of two bits
BitRule(operation, p, q) ==
  IF operation = "and" THEN (IF p = 1 /\ q = 1 THEN 1 ELSE 0)
  ELSE IF operation = "or" THEN (IF p = 1 \/ q = 1 THEN 1 ELSE 0)
  ELSE (IF p # q THEN 1 ELSE 0)

\* the operation ran on two buffers of equal length
IsBooleanRun ==
  /\ op.name = "booleanOperation"
  /\ op.operation \in {"and", "or", "xor"}
  /\ Len(imageData.data) = Len(otherImageData.data)

\* every R, G, B byte of the result is the bitwise combination of the two
\* input bytes
BitwiseColours ==
  \A k \in 1..Len(imageData.data) :
    (k - 1) % 4 # 3 =>
      /\ result.data[k] \in Byte
      /\ \A bit \in 0..7 :
           BitOf(result.data[k], bit) =
             BitRule(op.operation, BitOf(imageData.data[k], bit),
                     BitOf(otherImageData.data[k], bit))

ExpectedByte(operation, a, b) ==
  IF operation \in {"and", "or", "xor"}
  THEN CHOOSE r \in Byte :
         \A bit \in 0..7 : BitOf(r, bit) = BitRule(operation, BitOf(a, bit), BitOf(b, bit))
  ELSE IF operation = "add" THEN (IF a + b > 255 THEN 255 ELSE a + b)
  ELSE IF operation = "subtract" THEN (IF a < b THEN 0 ELSE a - b)
  ELSE CHOOSE r \in Byte : 2 * Abs(255 * r - a * b) < 255

IsTwoImageRun == op.name \in {"booleanOperation", "arithmeticImage"}

KnownOps == {"and", "or", "xor", "add", "subtract", "multiply"}

\* C11: when the data lengths of the two buffers differ, arithmeticImage and
\* booleanOperation return the source image byte for byte; when they are
\* equal, whatever the widths and heights, the operation is applied to every
\* colour byte; the second buffer is never modified.
C11_SizeMismatch ==
  /\ [](IsTwoImageRun =>
          IF Len(imageData.data) # Len(otherImageData.data)
          THEN result = imageData
          ELSE op.operation \in KnownOps =>
                 /\ result.width = imageData.width
                 /\ result.height = imageData.height
                 /\ \A k \in 1..Len(imageData.data) :
                      (k - 1) % 4 # 3 =>
                        result.data[k] =
                          ExpectedByte(op.operation, imageData.data[k],
                                       otherImageData.data[k]))
  /\ [][otherImageData' = otherImageData]_vars

\* arithmeticImage was called with a second image of another length and gave
\* back the source image, which an addition of that second image would change
C11_Witness ==
  /\ op.name = "arithmeticImage" /\ op.operation = "add"
  /\ Len(imageData.data) # Len(otherImageData.data)
  /\ otherImageData.data[1] > 0 /\ imageData.data[1] < 255
  /\ result = imageData

\* C16: xor of an image with an identical copy of itself gives R = G = B = 0
\* at every pixel.
C16_XorWithItself ==
  (/\ op.name = "booleanOperation" /\ op.operation = "xor"
   /\ otherImageData = imageData)
    => \A k \in 1..Len(result.data) : (k - 1) % 4 # 3 => result.data[k] = 0

\* xor ran on an image of two colours, none of them black, and its copy
C16_Witness ==
  /\ op.name = "booleanOperation" /\ op.operation = "xor"
  /\ otherImageData = imageData
  /\ Len(imageData.data) >= 8
  /\ imageData.data[1] # imageData.data[5]
  /\ imageData.data[1] > 0 /\ imageData.data[5] > 0
  /\ result.data[1] = 0 /\ result.data[5] = 0

(***************************************************************************)
(* Inputs of the rotations and flips: images whose bytes, alpha included,  *)
(* all differ from their neighbours                                        *)
(***************************************************************************)
geomImage(width, height) ==
  [width |-> width, height |-> height,
   data |-> [k \in 1..(width * height * 4) |-> ((k - 1) * 53 + 7) % 256]]

GeomImages == {geomImage(w, h) : w \in 1..MaxGeomDim, h \in 1..MaxGeomDim}

(***************************************************************************)
(* The geometry tab as a state machine.  A rotation or flip is computed    *)
(* from the image of the processor, drawn to the canvas of the tab, and    *)
(* that canvas becomes the image of the processor: the next one works on   *)
(* the result.  The canvas is taken to give back the bytes drawn to it.    *)
(* op keeps the image loaded and the methods applied to it since.          *)
(***************************************************************************)
InitGeom ==
  /\ imageData \in GeomImages
  /\ otherImageData = NoImage
  /\ op = [name |-> "geometry", source |-> imageData, applied |-> <<>>]
  /\ result = NoResult

ApplyRotation(degrees) ==
  /\ op.name = "geometry"
  /\ Len(op.applied) < MaxSteps
  /\ LET rotated == IF degrees = 90 THEN rotate90(imageData)
                    ELSE IF degrees = 180 THEN rotate180(imageData)
                    ELSE rotate270(imageData)
     IN  /\ result' = rotated
         /\ imageData' = rotated
  /\ op' = [op EXCEPT !.applied =
               Append(@, IF degrees = 90 THEN "rotate90"
                         ELSE IF degrees = 180 THEN "rotate180"
                         ELSE "rotate270")]
  /\ UNCHANGED otherImageData

ApplyFlip(direction) ==
  /\ op.name = "geometry"
  /\ Len(op.applied) < MaxSteps
  /\ LET flipped == IF direction = "horizontal" THEN flipHorizontal(imageData)
                    ELSE flipVertical(imageData)
     IN  /\ result' = flipped
         /\ imageData' = flipped
  /\ op' = [op EXCEPT !.applied =
               Append(@, IF direction = "horizontal" THEN "flipHorizontal"
                         ELSE "flipVertical")]
  /\ UNCHANGED otherImageData

ResetGeom ==
  /\ op.name = "geometry"
  /\ Len(op.applied) > 0
  /\ imageData' = op.source
  /\ op' = [op EXCEPT !.applied = <<>>]
  /\ result' = NoResult
  /\ UNCHANGED otherImageData

NextGeom ==
  \/ \E d \in {90, 180, 270} : ApplyRotation(d)
  \/ \E d \in {"horizontal", "vertical"} : ApplyFlip(d)
  \/ ResetGeom

SpecGeom == InitGeom /\ [][NextGeom]_vars

(***************************************************************************)
(* Properties of the rotations and flips                                   *)
(***************************************************************************)
\* the operations applied since the load are n times the operation o
AppliedIs(o, n) ==
  /\ op.name = "geometry"
  /\ op.applied = [k \in 1..n |-> o]

\* C13: four rotations by 90 degrees in succession give back the width, the
\* height and every byte of the image, square or not; and one rotation by
\* 180 degrees gives what two rotations by 90 degrees give.
C13_RotationGroup ==
  /\ AppliedIs("rotate90", 4) => imageData = op.source
  /\ AppliedIs("rotate180", 1) => imageData = rotate90(rotate90(op.source))
  /\ AppliedIs("rotate90", 2) => imageData = rotate180(op.source)

\* an image that is not square, and that a quarter turn and a half turn
\* change, was turned four times by 90 degrees
C13_Witness ==
  /\ AppliedIs("rotate90", 4)
  /\ op.source.width # op.source.height
  /\ op.source.width > 1 /\ op.source.height > 1
  /\ rotate180(op.source) # op.source
  /\ imageData = op.source

\* C14: flipHorizontal applied twice in succession gives back the image,
\* dimensions and every byte, alpha included; so does flipVertical.
C14_FlipInvolution ==
  /\ AppliedIs("flipHorizontal", 2) => imageData = op.source
  /\ AppliedIs("flipVertical", 2) => imageData = op.source

\* an image three pixels wide, whose alpha bytes differ and which one flip
\* changes, was flipped twice horizontally
C14_Witness ==
  /\ AppliedIs("flipHorizontal", 2)
  /\ op.source.width = 3
  /\ op.source.data[4] # op.source.data[8]
  /\ flipHorizontal(op.source) # op.source
  /\ imageData = op.source

(***************************************************************************)
(* Inputs of the operations on one image: images of one colour but for the *)
(* first pixel                                                             *)
(***************************************************************************)
PointColours == {<<100, 150, 250, 255>>, <<200, 0, 255, 128>>, <<12, 34, 56, 0>>,
                 <<255, 255, 255, 255>>}

PointImages ==
  {procImage(w, h, bg, fg) :
     w \in 1..MaxPointDim, h \in 1..MaxPointDim, bg \in PointColours, fg \in PointColours}

BinaryThresholds == 0..255

\* brightness values and constants, beyond -255..255 on both sides
Operands == {-300, -256, -255, -50, -1, 0, 1, 50, 255, 256, 300}

ConstantOps == {"add", "subtract", "multiply", "divide"}

(***************************************************************************)
(* The operations on one image as a state machine: an image is loaded, an  *)
(* operation is applied to it, toBinary may be applied to its own result,  *)
(* and the result is reset.                                                *)
(***************************************************************************)
InitPoint ==
  /\ imageData \in PointImages
  /\ otherImageData = NoImage
  /\ op = [name |-> "load"]
  /\ result = NoResult

ToBinary(threshold) ==
  /\ op.name = "load"
  /\ op' = [name |-> "toBinary", threshold |-> threshold, times |-> 1,
            first |-> toBinary(imageData, threshold)]
  /\ result' = toBinary(imageData, threshold)
  /\ UNCHANGED <<imageData, otherImageData>>

\* toBinary on a processor whose canvas holds the result of the first call
ToBinaryAgain ==
  /\ op.name = "toBinary" /\ op.times = 1
  /\ op' = [op EXCEPT !.times = 2]
  /\ result' = toBinary(result, op.threshold)
  /\ UNCHANGED <<imageData, otherImageData>>

AdjustBrightness(value) ==
  /\ op.name = "load"
  /\ op' = [name |-> "adjustBrightness", value |-> value]
  /\ result' = adjustBrightness(imageData, value)
  /\ UNCHANGED <<imageData, otherImageData>>

ArithmeticConstant(operation, constant) ==
  /\ op.name = "load"
  /\ op' = [name |-> "arithmeticConstant", operation |-> operation,
            constant |-> constant]
  /\ result' = arithmeticConstant(imageData, operation, constant)
  /\ UNCHANGED <<imageData, otherImageData>>

ResetPoint ==
  /\ op.name # "load"
  /\ op' = [name |-> "load"]
  /\ result' = NoResult
  /\ UNCHANGED <<imageData, otherImageData>>

NextPoint ==
  \/ \E t \in BinaryThresholds : ToBinary(t)
  \/ ToBinaryAgain
  \/ \E v \in Operands : AdjustBrightness(v)
  \/ \E o \in ConstantOps, c \in Operands : ArithmeticConstant(o, c)
  \/ ResetPoint

SpecPoint == InitPoint /\ [][NextPoint]_vars

(***************************************************************************)
(* Properties of the operations on one image                               *)
(***************************************************************************)
ColourBytes(image) == {k \in 1..Len(image.data) : (k - 1) % 4 # 3}

AlphaBytes(image) == {k \in 1..Len(image.data) : (k - 1) % 4 = 3}

\* C15: toBinary with threshold t applied to the result of toBinary with
\* threshold t gives the same buffer; every R, G, B byte of the result is 0
\* or 255.
C15_BinaryIdempotent ==
  (op.name = "toBinary" /\ op.times = 2)
    => /\ result = op.first
       /\ \A k \in ColourBytes(result) : result.data[k] \in {0, 255}

\* an image with a pixel on each side of the threshold was binarized twice
C15_Witness ==
  /\ op.name = "toBinary" /\ op.times = 2
  /\ op.threshold > 0
  /\ \E k \in ColourBytes(result) : result.data[k] = 0
  /\ \E k \in ColourBytes(result) : result.data[k] = 255
  /\ result = op.first /\ result # imageData

Min(a, b) == IF a < b THEN a ELSE b

Max(a, b) == IF a > b THEN a ELSE b

\* what C17 calls the constant added to a channel by the last operation
AddedConstant ==
  IF op.name = "adjustBrightness" THEN op.value
  ELSE IF op.operation = "add" THEN op.constant
  ELSE 0 - op.constant

IsClampRun ==
  \/ op.name = "adjustBrightness"
  \/ op.name = "arithmeticConstant" /\ op.operation \in {"add", "subtract"}

\* C17: arithmeticConstant add gives min(255, max(0, c + k)) and subtract
\* min(255, max(0, c - k)) on each of R, G, B, adjustBrightness gives
\* min(255, max(0, c + delta)); alpha is unchanged and no result leaves
\* 0..255.
C17_ArithmeticClamp ==
  IsClampRun =>
    /\ \A k \in ColourBytes(imageData) :
         /\ result.data[k] = Min(255, Max(0, imageData.data[k] + AddedConstant))
         /\ result.data[k] \in Byte
    /\ \A k \in AlphaBytes(imageData) : result.data[k] = imageData.data[k]
    /\ Len(result.data) = Len(imageData.data)

\* 300 was added to a pixel (200, 0, 255) of alpha 128
C17_Witness ==
  /\ op.name = "arithmeticConstant" /\ op.operation = "add" /\ op.constant = 300
  /\ imageData.data[1] = 200 /\ imageData.data[4] = 128
  /\ result.data[1] = 255 /\ result.data[2] = 255 /\ result.data[4] = 128

(***************************************************************************)
(* Inputs of the green detection: images of one colour but for the first   *)
(* pixel.  The colours are green, cyan (hue 180), a yellow green of hue    *)
(* below 90, red, a green of saturation 20, a green of hue 90, a green of  *)
(* value 20, a green of value below 10, gray and transparent black.        *)
(***************************************************************************)
HsvColours == {<<0, 255, 0, 255>>, <<0, 255, 255, 128>>, <<128, 255, 0, 255>>,
               <<255, 0, 0, 255>>, <<24, 30, 24, 255>>, <<15, 30, 0, 64>>,
               <<0, 51, 0, 255>>, <<0, 25, 0, 255>>, <<128, 128, 128, 255>>,
               <<0, 0, 0, 0>>}

HsvImages ==
  {procImage(w, h, bg, fg) :
     w \in 1..MaxHsvDim, h \in 1..MaxHsvDim, bg \in HsvColours, fg \in HsvColours}

\* the options object the feature builds from its four sliders; an object
\* without the four fields leaves them to their defaults
GreenOptions ==
  {[hueMin |-> 90, hueMax |-> 180, saturationMin |-> 20, valueMin |-> 10,
    colorOutput |-> TRUE],
   [hueMin |-> 0, hueMax |-> 360, saturationMin |-> 0, valueMin |-> 0,
    colorOutput |-> TRUE],
   [hueMin |-> 90, hueMax |-> 180, saturationMin |-> 20, valueMin |-> 20,
    colorOutput |-> TRUE],
   [hueMin |-> 120, hueMax |-> 120, saturationMin |-> 100, valueMin |-> 100,
    colorOutput |-> TRUE],
   [hueMin |-> 180, hueMax |-> 90, saturationMin |-> 20, valueMin |-> 10,
    colorOutput |-> TRUE],
   [colorOutput |-> TRUE]}

\* channel values of the round trip
Levels == {0, 1, 128, 254, 255}

(***************************************************************************)
(* The green detection as a state machine: an image is loaded, the feature *)
(* detects green twice, with a binary and with a colour output, and the    *)
(* result is reset; a colour is taken through rgbToHsv and hsvToRgb.       *)
(***************************************************************************)
\* { ...options, colorOutput: flag }
withColorOutput(options, flag) ==
  [f \in DOMAIN options \cup {"colorOutput"} |->
     IF f = "colorOutput" THEN flag ELSE options[f]]

InitHsv ==
  /\ imageData \in HsvImages
  /\ otherImageData = NoImage
  /\ op = [name |-> "load"]
  /\ result = NoResult

DetectGreen(options) ==
  /\ op.name = "load"
  /\ op' = [name |-> "detectGreen", options |-> options]
  /\ result' = [binaryResult |-> detectGreen(imageData, withColorOutput(options, FALSE)),
                colorResult |-> detectGreen(imageData, withColorOutput(options, TRUE)),
                statistics |-> analyzeGreenStatistics(imageData, options)]
  /\ UNCHANGED <<imageData, otherImageData>>

HsvRoundTrip(r, g, b) ==
  /\ op.name = "load"
  /\ op' = [name |-> "hsvRoundTrip", rgb |-> <<r, g, b>>]
  /\ result' = LET hsv == rgbToHsv(r, g, b)
               IN  [hsv |-> hsv, rgb |-> hsvToRgb(hsv.h, hsv.s, hsv.v)]
  /\ UNCHANGED <<imageData, otherImageData>>

ResetGreenDetection ==
  /\ op.name # "load"
  /\ op' = [name |-> "load"]
  /\ result' = NoResult
  /\ UNCHANGED <<imageData, otherImageData>>

NextHsv ==
  \/ \E o \in GreenOptions : DetectGreen(o)
  \/ \E r \in Levels, g \in Levels, b \in Levels : HsvRoundTrip(r, g, b)
  \/ ResetGreenDetection

SpecHsv == InitHsv /\ [][NextHsv]_vars

(***************************************************************************)
(* Properties of the green detection                                       *)
(***************************************************************************)
\* the pixels of an image, numbered from 0
PixelIndices(image) == 0..((Len(image.data) \div 4) - 1)

\* bytes first..last (1 = R .. 4 = A) of pixel p
PixelBytes(image, p, first, last) ==
  [c \in 1..(last - first + 1) |-> image.data[4 * p + first + c - 1]]

\* a fraction n/d with d > 0 is at least the integer m
AtLeast(q, m) == q[1] >= m * q[2]

\* the pixel is green for the minima and the maximum of the options, or for
\* 90, 180, 20 and 10 where the options do not give them
ClaimedGreen(image, p, options) ==
  LET hsv == rgbToHsv(image.data[4 * p + 1], image.data[4 * p + 2], image.data[4 * p + 3])
      bound(field, default) == IF field \in DOMAIN options THEN options[field] ELSE default
  IN  /\ AtLeast(hsv.h, bound("hueMin", 90))
      /\ ~AtLeast(hsv.h, bound("hueMax", 180)) \/ hsv.h = <<bound("hueMax", 180), 1>>
      /\ AtLeast(hsv.s, bound("saturationMin", 20))
      /\ AtLeast(hsv.v, bound("valueMin", 10))

C19_HsvRoundTrip ==
  (op.name = "hsvRoundTrip" /\ \A c \in 1..3 : op.rgb[c] \in {0, 128, 255})
    => /\ Abs(result.rgb.r - op.rgb[1]) <= 1
       /\ Abs(result.rgb.g - op.rgb[2]) <= 1
       /\ Abs(result.rgb.b - op.rgb[3]) <= 1

\* a colour whose hue is no multiple of 60 and whose three channels differ
\* went through the round trip
C19_Witness ==
  /\ op.name = "hsvRoundTrip" /\ op.rgb = <<128, 255, 0>>
  /\ result.hsv.h[2] # 1
  /\ result.rgb = [r |-> 128, g |-> 255, b |-> 0]

\* the number of white pixels of an image
WhitePixels(image) ==
  Cardinality({p \in PixelIndices(image) : PixelBytes(image, p, 1, 3) = <<255, 255, 255>>})

\* C29: the number of white pixels of the binary output of detectGreen is the
\* greenPixels of analyzeGreenStatistics for the same image and options, and
\* 0 <= greenPixels <= totalPixels = width * height.
C29_MaskAgreesWithStatistics ==
  op.name = "detectGreen" =>
    /\ WhitePixels(result.binaryResult) = result.statistics.greenPixels
    /\ result.statistics.greenPixels >= 0
    /\ result.statistics.greenPixels <= result.statistics.totalPixels
    /\ result.statistics.totalPixels = imageData.width * imageData.height

\* the defaults were used on an image of four pixels, three of them of
\* saturation exactly 20 and green, the first one red and not green
C29_Witness ==
  /\ op.name = "detectGreen" /\ DOMAIN op.options = {"colorOutput"}
  /\ result.statistics.totalPixels = 4
  /\ result.statistics.greenPixels = 3
  /\ PixelBytes(imageData, 0, 1, 3) = <<255, 0, 0>>
  /\ PixelBytes(imageData, 1, 1, 3) = <<24, 30, 24>>
  /\ WhitePixels(result.binaryResult) = 3
  /\ PixelBytes(result.binaryResult, 0, 1, 3) = <<0, 0, 0>>

(***************************************************************************)
(* Inputs of the statistics: images of one colour but for the first pixel, *)
(* and arrays of channel values, of small values so that the exact sums    *)
(* stay small                                                              *)
(***************************************************************************)
StatColours == {<<0, 0, 0, 255>>, <<1, 2, 4, 255>>, <<10, 3, 3, 128>>}

StatImages ==
  {procImage(w, h, bg, fg) :
     w \in 1..MaxStatDim, h \in 1..MaxStatDim, bg \in StatColours, fg \in StatColours}

StatValues == {0, 3, 10}

StatArrays == SeqsUpTo(StatValues, MaxArrayLen)

\* the second channel of a correlation
PairArrays == SeqsUpTo({0, 10}, MaxArrayLen)

(***************************************************************************)
(* The comparison of two images as a state machine: the image of the       *)
(* processor and a second image are there, the statistics of the first are *)
(* computed or the two are compared, and a second image is loaded again.   *)
(***************************************************************************)
InitStat ==
  /\ imageData \in StatImages
  /\ otherImageData \in StatImages
  /\ op = [name |-> "load"]
  /\ result = NoResult

CalculateFirstImage ==
  /\ op.name = "load"
  /\ op' = [name |-> "calculateAllStatistics", extractions |-> extractPixelValuesRuns]
  /\ result' = calculateAllStatistics(imageData)
  /\ UNCHANGED <<imageData, otherImageData>>

CompareWithImage ==
  /\ op.name = "load"
  /\ op' = [name |-> "compareWithImage"]
  /\ result' = compareWithImage(imageData, otherImageData)
  /\ UNCHANGED <<imageData, otherImageData>>

HandleSecondImageUpload(image) ==
  /\ op.name # "load"
  /\ otherImageData' = image
  /\ op' = [name |-> "load"]
  /\ result' = NoResult
  /\ UNCHANGED imageData

NextStat ==
  \/ CalculateFirstImage
  \/ CompareWithImage
  \/ \E image \in StatImages : HandleSecondImageUpload(image)

SpecStat == InitStat /\ [][NextStat]_vars

(***************************************************************************)
(* The three moments as a state machine: each is called on arrays.         *)
(***************************************************************************)
InitMoments ==
  /\ imageData = NoImage
  /\ otherImageData = NoImage
  /\ op = [name |-> "load"]
  /\ result = NoResult

CalculatePearsonCorrelation ==
  /\ op.name = "load"
  /\ \E channel1 \in StatArrays, channel2 \in PairArrays :
       /\ op' = [name |-> "calculatePearsonCorrelation", channel1 |-> channel1,
                 channel2 |-> channel2]
       /\ result' = calculatePearsonCorrelation(channel1, channel2)
  /\ UNCHANGED <<imageData, otherImageData>>

CalculateSkewness ==
  /\ op.name = "load"
  /\ \E arr \in StatArrays :
       /\ op' = [name |-> "calculateSkewness", arr |-> arr]
       /\ result' = calculateSkewness(arr)
  /\ UNCHANGED <<imageData, otherImageData>>

CalculateKurtosis ==
  /\ op.name = "load"
  /\ \E arr \in StatArrays :
       /\ op' = [name |-> "calculateKurtosis", arr |-> arr]
       /\ result' = calculateKurtosis(arr)
  /\ UNCHANGED <<imageData, otherImageData>>

ResetMoments ==
  /\ op.name # "load"
  /\ op' = [name |-> "load"]
  /\ result' = NoResult
  /\ UNCHANGED <<imageData, otherImageData>>

NextMoments ==
  \/ CalculatePearsonCorrelation
  \/ CalculateSkewness
  \/ CalculateKurtosis
  \/ ResetMoments

SpecMoments == InitMoments /\ [][NextMoments]_vars

(***************************************************************************)
(* Properties of the statistics                                            *)
(***************************************************************************)
\* diff is the larger of a and b minus the smaller one
IsAbsDifference(diff, a, b, leq(_, _)) ==
  /\ {diff.minuend, diff.subtrahend} = {a, b}
  /\ \/ diff.minuend = a /\ diff.subtrahend = b
     \/ diff.minuend = b /\ diff.subtrahend = a
  /\ leq(diff.subtrahend, diff.minuend)

PairNames == {"RG", "RB", "GB"}
ChannelNames == {"R", "G", "B"}

\* C12: compareWithImage returns a value with the field error and nothing
\* else exactly when the width or the height of the other image differs from
\* that of the image of the analyzer; otherwise it returns the statistics of
\* both images and, for each of the three correlation pairs and for the
\* skewness, kurtosis, entropy and chi-square of each channel, the absolute
\* difference of the two values.
C12_CompareWithImage ==
  op.name = "compareWithImage" =>
    IF otherImageData.width # imageData.width \/ otherImageData.height # imageData.height
    THEN DOMAIN result = {"error"}
    ELSE
      LET stats1 == calculateAllStatistics(imageData)
          stats2 == calculateAllStatistics(otherImageData)
      IN  /\ DOMAIN result = {"pearsonCorrelationDiff", "skewnessDiff", "kurtosisDiff",
                              "entropyDiff", "chiSquareDiff", "image1Stats",
                              "image2Stats"}
          /\ result.image1Stats = stats1
          /\ result.image2Stats = stats2
          /\ \A k \in PairNames :
               IsAbsDifference(result.pearsonCorrelationDiff[k],
                               stats1.pearsonCorrelation[k],
                               stats2.pearsonCorrelation[k], realLeq)
          /\ \A c \in ChannelNames :
               /\ IsAbsDifference(result.skewnessDiff[c], stats1.skewness[c],
                                  stats2.skewness[c], realLeq)
               /\ IsAbsDifference(result.kurtosisDiff[c], stats1.kurtosis[c],
                                  stats2.kurtosis[c], realLeq)
               /\ IsAbsDifference(result.entropyDiff[c], stats1.entropy[c],
                                  stats2.entropy[c], entropyLeq)
               /\ IsAbsDifference(result.chiSquareDiff[c], stats1.chiSquare[c],
                                  stats2.chiSquare[c], realLeq)

\* two images of one size with different statistics were compared, the
\* second one having the larger skewness of red
C12_Witness ==
  /\ op.name = "compareWithImage"
  /\ imageData.width = 2 /\ otherImageData.width = 2
  /\ imageData.height = 2 /\ otherImageData.height = 2
  /\ "image1Stats" \in DOMAIN result
  /\ result.image1Stats # result.image2Stats
  /\ result.skewnessDiff.R.minuend = result.image2Stats.skewness.R
  /\ result.skewnessDiff.R.minuend # result.skewnessDiff.R.subtrahend

\* all elements of arr are one value
ZeroVariance(arr) == \A i, j \in 1..Len(arr) : arr[i] = arr[j]

\* neither NaN nor an infinity
IsFinite(x) == x.coef[2] # 0 /\ x.rad[2] # 0

\* C20: calculatePearsonCorrelation returns 0 when the two arrays differ in
\* length, are empty, or one of them has zero variance; calculateSkewness
\* returns 0 on fewer than 3 elements or zero variance; calculateKurtosis
\* returns 0 on fewer than 4 elements or zero variance; none of the three
\* returns NaN.
C20_DegenerateInput ==
  /\ op.name = "calculatePearsonCorrelation" =>
       /\ IsFinite(result)
       /\ (\/ Len(op.channel1) # Len(op.channel2)
           \/ Len(op.channel1) = 0
           \/ ZeroVariance(op.channel1)
           \/ ZeroVariance(op.channel2)) => result = real(int(0))
  /\ op.name = "calculateSkewness" =>
       /\ IsFinite(result)
       /\ (Len(op.arr) < 3 \/ ZeroVariance(op.arr)) => result = real(int(0))
  /\ op.name = "calculateKurtosis" =>
       /\ IsFinite(result)
       /\ (Len(op.arr) < 4 \/ ZeroVariance(op.arr)) => result = real(int(0))

\* a correlation of two arrays of one length, the second one constant
C20_Witness ==
  /\ op.name = "calculatePearsonCorrelation"
  /\ Len(op.channel1) = 3 /\ Len(op.channel2) = 3
  /\ ~ZeroVariance(op.channel1)
  /\ ZeroVariance(op.channel2)
  /\ result = real(int(0))

\* C24: during one calculateAllStatistics extractPixelValues runs over the
\* pixel data exactly once, the five families of statistics being computed
\* from the same three channel arrays.
C24_ExtractedOnce ==
  op.name = "calculateAllStatistics" => op.extractions = 1

(***************************************************************************)
(* More properties of the edge detector                                    *)
(***************************************************************************)
\* C28: with the sobel, prewitt or laplacian kernel, detecting the edges of
\* the mirrored image gives the mirror image of the detected edges, so a
\* dark-to-bright and a bright-to-dark step are detected alike.
C28_MirrorCommutes ==
  (op.name = "detectEdges" /\ op.kernelName \in {"sobel", "prewitt", "laplacian"}) =>
    detectEdges(flipHorizontal(imageData), op.kernelName, op.threshold).imageData
      = flipHorizontal(result.imageData)

\* the kernel names getKernel has a case for
RecognisedNames == {"sobel", "prewitt", "roberts", "laplacian"}

\* C30: for every image, kernel name and threshold the result of detectEdges
\* has the width and height of the input, every pixel of it is black or white
\* with alpha 255, every pixel nearer to an image edge than half the kernel
\* size is black, and a name that is not recognised gives the result of sobel.
C30_ResultShape ==
  op.name = "detectEdges" =>
    LET out == result.imageData
    IN  /\ out.width = imageData.width
        /\ out.height = imageData.height
        /\ Len(out.data) = 4 * out.width * out.height
        /\ \A xy \in AllPixels(imageData) :
              /\ IsWhite(out, xy[1], xy[2]) \/ IsBlack(out, xy[1], xy[2])
              /\ ByteAt(out, xy[1], xy[2], 4) = 255
        /\ \A xy \in AllPixels(imageData) \ Interior(imageData, result.kernelX) :
              IsBlack(out, xy[1], xy[2])
        /\ toLowerCase(op.kernelName) \notin RecognisedNames =>
              out = detectEdges(imageData, "sobel", op.threshold).imageData

\* a name that is not recognised, on an image with a pixel that is not opaque,
\* with a white pixel in the result
C30_Witness ==
  /\ op.name = "detectEdges"
  /\ op.kernelName = "canny"
  /\ \E xy \in AllPixels(imageData) : ByteAt(imageData, xy[1], xy[2], 4) # 255
  /\ \E xy \in Interior(imageData, result.kernelX) :
        IsWhite(result.imageData, xy[1], xy[2])

(***************************************************************************)
(* More properties of the steganography codec                              *)
(***************************************************************************)
\* the number of colour bytes before the byte at index k (from 1), itself a
\* colour byte
ColourOrdinal(k) == 3 * ((k - 1) \div 4) + ((k - 1) % 4)

IsAlphaIndex(k) == (k - 1) % 4 = 3

\* C22: after a successful encode of a message of n bits the returned buffer
\* has the size of the input; the least significant bits of its first n
\* colour bytes in raster order are the message bits in order, the upper
\* seven bits of every byte, every alpha byte and every byte after the n-th
\* colour byte are those of the input; and the input buffer is not modified.
C22_EncodeFrame ==
  /\ [](op.name = "encode" /\ result.success =>
        LET message == textToBinary(op.text \o END_DELIMITER)
            n == result.bitsUsed
            input == imageData.data
            output == result.imageData.data
        IN  /\ n = Len(message)
            /\ Ascii(op.text) => n = 8 * (Len(op.text) + 7)
            /\ result.imageData.width = imageData.width
            /\ result.imageData.height = imageData.height
            /\ Len(output) = Len(input)
            /\ \A k \in 1..Len(input) :
                 /\ output[k] \div 2 = input[k] \div 2
                 /\ IsAlphaIndex(k) => output[k] = input[k]
                 /\ (~IsAlphaIndex(k) /\ ColourOrdinal(k) < n) =>
                      output[k] % 2 = message[ColourOrdinal(k) + 1]
                 /\ (~IsAlphaIndex(k) /\ ColourOrdinal(k) >= n) =>
                      output[k] = input[k])
  /\ [][imageData' = imageData]_vars

\* a message was written into an image of odd bytes that has room left: a
\* bit was cleared inside the message and an odd byte stands after it
C22_Witness ==
  /\ op.name = "encode" /\ result.success
  /\ result.bitsUsed < Pixels(imageData) * 3
  /\ \E k \in 1..Len(imageData.data) :
       /\ ~IsAlphaIndex(k) /\ ColourOrdinal(k) < result.bitsUsed
       /\ imageData.data[k] % 2 = 1 /\ result.imageData.data[k] % 2 = 0
  /\ \E k \in 1..Len(imageData.data) :
       /\ ~IsAlphaIndex(k) /\ ColourOrdinal(k) >= result.bitsUsed
       /\ imageData.data[k] % 2 = 1 /\ result.imageData.data[k] = imageData.data[k]

\* C26: for a text of codepoints up to 127, encode succeeds exactly when
\* text.length <= calculateCapacity(width, height), and calculateCapacity is
\* floor(width * height * 3 / 8) - 7.
C26_CapacityAgrees ==
  (op.name = "encode" /\ Ascii(op.text)) =>
    LET capacity == calculateCapacity(imageData.width, imageData.height)
    IN  /\ capacity = ((imageData.width * imageData.height * 3) \div 8) - 7
        /\ result.success <=> Len(op.text) <= capacity

\* a text of exactly as many characters as the capacity, 2, was encoded
C26_Witness ==
  /\ op.name = "encode" /\ Ascii(op.text)
  /\ Len(op.text) = 2
  /\ calculateCapacity(imageData.width, imageData.height) = 2
  /\ result.success /\ result.bitsUsed = result.bitsAvailable

\* the part of the text before the first occurrence of the string in it
BeforeFirst(text, str) ==
  LET starts == {k \in 1..(Len(text) - Len(str) + 1) :
                   SubSeq(text, k, k + Len(str) - 1) = str}
      first == CHOOSE k \in starts : \A j \in starts : k <= j
  IN  SubSeq(text, 1, first - 1)

\* C27: for a text of codepoints up to 127 within the capacity, decode of
\* the encoded buffer succeeds with the part of the text before the first
\* "<<END>>" when the text holds one, and otherwise stops at the appended
\* delimiter with bitsRead = 8 * (text.length + 7).
C27_DelimiterInPayload ==
  (op.name = "decode" /\ op.encoded /\ Ascii(op.text) /\ Fits(imageData, op.text)) =>
    IF Contains(op.text, END_DELIMITER)
    THEN /\ result.success
         /\ result.text = BeforeFirst(op.text, END_DELIMITER)
    ELSE /\ result.success
         /\ result.bitsRead = 8 * (Len(op.text) + 7)
         /\ "warning" \notin DOMAIN result

\* a text with a character on each side of the delimiter came back as its
\* first character
C27_Witness ==
  /\ op.name = "decode" /\ op.encoded
  /\ op.text = <<97>> \o END_DELIMITER \o <<97>>
  /\ result.success /\ result.text = <<97>>
  /\ result.bitsRead = 64

(***************************************************************************)
(* Inputs of the analysis of the least significant bits: images whose      *)
(* colour bytes are odd on the first oddOfFive of every five, of a few     *)
(* pixels and of more than 250 pixels (more than 1000 bytes)               *)
(***************************************************************************)
MaxLsbWidth == 5

LsbHeights == {1, 2, 4, 50, 51}

lsbImage(width, height, oddOfFive) ==
  [width |-> width, height |-> height,
   data |-> [k \in 1..(width * height * 4) |->
               IF k % 4 = 0 THEN 255
               ELSE IF (3 * ((k - 1) \div 4) + ((k - 1) % 4)) % 5 < oddOfFive
                    THEN 201 ELSE 200]]

LsbImages ==
  {lsbImage(w, h, o) : w \in 1..MaxLsbWidth, h \in LsbHeights, o \in 0..5}

(***************************************************************************)
(* The analysis as a state machine: an image is loaded and analyzed.       *)
(***************************************************************************)
InitLsb ==
  /\ imageData \in LsbImages
  /\ otherImageData = NoImage
  /\ op = [name |-> "load"]
  /\ result = NoResult

AnalyzeImage ==
  /\ op.name = "load"
  /\ op' = [name |-> "analyzeImage"]
  /\ result' = analyzeImage(imageData)
  /\ UNCHANGED <<imageData, otherImageData>>

ResetLsb ==
  /\ op.name # "load"
  /\ op' = [name |-> "load"]
  /\ result' = NoResult
  /\ UNCHANGED <<imageData, otherImageData>>

NextLsb ==
  \/ AnalyzeImage
  \/ ResetLsb

SpecLsb == InitLsb /\ [][NextLsb]_vars

(***************************************************************************)
(* Properties of the analysis                                              *)
(***************************************************************************)
\* C25: analyzeImage samples the least significant bits of the first 1000
\* R,G,B bytes (all of them when the image has fewer), so that zeros + ones
\* = min(1000, width * height * 3), and possibleHiddenData is true exactly
\* when 0.4 <= ones / (zeros + ones) <= 0.6.
C25_AnalyzeImage ==
  op.name = "analyzeImage" =>
    LET zeros == result.lsbRatio.zeros
        ones == result.lsbRatio.ones
    IN  /\ zeros + ones = Min(1000, Pixels(imageData) * 3)
        /\ ones = Cardinality({k \in 1..Len(imageData.data) :
                                 /\ ~IsAlphaIndex(k)
                                 /\ ColourOrdinal(k) < 1000
                                 /\ imageData.data[k] % 2 = 1})
        /\ result.possibleHiddenData
             <=> (4 * (zeros + ones) <= 10 * ones /\ 10 * ones <= 6 * (zeros + ones))

(***************************************************************************)
(* The convolution as a state machine: an image is loaded and              *)
(* applyConvolution is called on it with one of the kernels.               *)
(***************************************************************************)
Kernels == {SOBEL_X, SOBEL_Y, PREWITT_X, PREWITT_Y, ROBERTS_X, ROBERTS_Y, LAPLACIAN}

InitConv ==
  /\ imageData \in EdgeImages
  /\ otherImageData = NoImage
  /\ op = [name |-> "load"]
  /\ result = NoResult

ApplyConvolution ==
  /\ op.name = "load"
  /\ \E kernel \in Kernels :
       /\ op' = [name |-> "applyConvolution", kernel |-> kernel,
                 reads |-> convolutionReads(imageData.width, imageData.height, kernel)]
       /\ result' = applyConvolution(imageData.data, imageData.width,
                                     imageData.height, kernel)
  /\ UNCHANGED <<imageData, otherImageData>>

ResetConv ==
  /\ op.name # "load"
  /\ op' = [name |-> "load"]
  /\ result' = NoResult
  /\ UNCHANGED <<imageData, otherImageData>>

NextConv ==
  \/ ApplyConvolution
  \/ ResetConv

SpecConv == InitConv /\ [][NextConv]_vars

(***************************************************************************)
(* Properties of the convolution                                           *)
(***************************************************************************)
\* the result of applyConvolution as an image of the size of the input
Convolved == [width |-> imageData.width, height |-> imageData.height,
              data |-> result.data]

\* C23: with offset = floor(kernelSize / 2), exactly the pixels (x, y) with
\* offset <= x < width - offset and offset <= y < height - offset have
\* R = G = B = the convolution sum clamped to 0..255 and alpha 255; every
\* other pixel has four bytes 0; no gray value outside the image is read;
\* and an image narrower or lower than the kernel gives data that is all 0.
C23_NoPaddingBoundary ==
  op.name = "applyConvolution" =>
    LET offset == Len(op.kernel) \div 2
        inside(x, y) == /\ offset <= x /\ x < imageData.width - offset
                        /\ offset <= y /\ y < imageData.height - offset
    IN  /\ Len(result.data) = Len(imageData.data)
        /\ \A xy \in AllPixels(imageData) :
             IF inside(xy[1], xy[2])
             THEN /\ \A ch \in 1..3 :
                       ByteAt(Convolved, xy[1], xy[2], ch)
                         = Max(0, Min(255, RawSum(imageData, op.kernel, xy[1], xy[2])))
                  /\ ByteAt(Convolved, xy[1], xy[2], 4) = 255
             ELSE \A ch \in 1..4 : ByteAt(Convolved, xy[1], xy[2], ch) = 0
        /\ \A r \in op.reads :
             /\ r[1] \in 0..(imageData.width - 1)
             /\ r[2] \in 0..(imageData.height - 1)
        /\ (imageData.width < Len(op.kernel) \/ imageData.height < Len(op.kernel)) =>
             \A k \in 1..Len(result.data) : result.data[k] = 0

\* a 3x3 kernel on an image of 4x3 pixels: two pixels are computed, one of
\* them with a sum that is not 0, and the corners of the image are read
C23_Witness ==
  /\ op.name = "applyConvolution" /\ Len(op.kernel) = 3
  /\ imageData.width = 4 /\ imageData.height = 3
  /\ ByteAt(Convolved, 1, 1, 4) = 255 /\ ByteAt(Convolved, 2, 1, 4) = 255
  /\ ByteAt(Convolved, 1, 1, 1) > 0
  /\ ByteAt(Convolved, 0, 0, 4) = 0
  /\ <<0, 0>> \in op.reads /\ <<3, 2>> \in op.reads

(***************************************************************************)
(* Inputs of the luminance: images of one colour, the channels taken from  *)
(* both ends of the range and from between                                 *)
(***************************************************************************)
MaxLumDim == 2

LumLevels == {0, 1, 100, 128, 254, 255}

LumImages ==
  {procImage(w, h, <<r, g, b, 255>>, <<r, g, b, 255>>) :
     w \in 1..MaxLumDim, h \in 1..MaxLumDim,
     r \in LumLevels, g \in LumLevels, b \in LumLevels}

\* thresholds of toBinary, 256 above every byte
LumThresholds == {0, 76, 77, 255, 256}

(***************************************************************************)
(* The gray value as a state machine: an image is loaded and one of the    *)
(* three loops that compute the gray value runs over it.                   *)
(***************************************************************************)
InitLum ==
  /\ imageData \in LumImages
  /\ otherImageData = NoImage
  /\ op = [name |-> "load"]
  /\ result = NoResult

ToGrayscale ==
  /\ op.name = "load"
  /\ op' = [name |-> "toGrayscale"]
  /\ result' = toGrayscale(imageData)
  /\ UNCHANGED <<imageData, otherImageData>>

BinaryOfGray ==
  /\ op.name = "load"
  /\ \E threshold \in LumThresholds :
       /\ op' = [name |-> "toBinary", threshold |-> threshold]
       /\ result' = toBinary(imageData, threshold)
  /\ UNCHANGED <<imageData, otherImageData>>

\* the first loop of applyConvolution
GrayData ==
  /\ op.name = "load"
  /\ op' = [name |-> "grayData"]
  /\ result' = [grayData |-> [p \in 1..(imageData.width * imageData.height) |->
                                grayData(imageData.data, p - 1)]]
  /\ UNCHANGED <<imageData, otherImageData>>

ResetLum ==
  /\ op.name # "load"
  /\ op' = [name |-> "load"]
  /\ result' = NoResult
  /\ UNCHANGED <<imageData, otherImageData>>

NextLum ==
  \/ ToGrayscale
  \/ BinaryOfGray
  \/ GrayData
  \/ ResetLum

SpecLum == InitLum /\ [][NextLum]_vars

(***************************************************************************)
(* Properties of the luminance                                             *)
(***************************************************************************)
\* the colour of the image, all of its pixels having one
ColourOf(image) == <<image.data[1], image.data[2], image.data[3]>>

\* the gray value the claim states for three colours
StatedGray(colour, gray) ==
  /\ colour = <<0, 0, 0>> => gray = 0
  /\ colour = <<255, 255, 255>> => gray = 255
  /\ colour = <<255, 0, 0>> => gray = 76

\* C21: the gray value of toGrayscale, toBinary and applyConvolution lies in
\* 0..255, and is 0 for black, 255 for white and 76 for (255, 0, 0).  The
\* gray value of toBinary shows in its result: white exactly when the gray
\* value is at least the threshold.
C21_Luminance ==
  /\ op.name = "toGrayscale" =>
       \A k \in ColourBytes(result) :
         /\ result.data[k] \in 0..255
         /\ StatedGray(ColourOf(imageData), result.data[k])
  /\ op.name = "grayData" =>
       \A p \in 1..Len(result.grayData) :
         /\ result.grayData[p] \in 0..255
         /\ StatedGray(ColourOf(imageData), result.grayData[p])
  /\ op.name = "toBinary" =>
       \A k \in ColourBytes(result) :
         /\ op.threshold = 0 => result.data[k] = 255
         /\ op.threshold = 256 => result.data[k] = 0
         /\ ColourOf(imageData) = <<0, 0, 0>> =>
              (result.data[k] = 255 <=> op.threshold <= 0)
         /\ ColourOf(imageData) = <<255, 255, 255>> =>
              (result.data[k] = 255 <=> op.threshold <= 255)
         /\ ColourOf(imageData) = <<255, 0, 0>> =>
              (result.data[k] = 255 <=> op.threshold <= 76)

\* the gray value of (255, 0, 0) was computed by toGrayscale
C21_Witness ==
  /\ op.name = "toGrayscale"
  /\ ColourOf(imageData) = <<255, 0, 0>>
  /\ result.data[1] = 76 /\ result.data[2] = 76 /\ result.data[3] = 76

====
